---- MODULE Spec2Model ----
(***************************************************************************)
(* dir-kill: the streaming directory discoverer (src/fs/mod.rs), the       *)
(* application state (src/ui/app.rs), the deletion thread pool             *)
(* (src/ui/app.rs) and the main loop of the terminal UI (src/ui/mod.rs).   *)
(*                                                                         *)
(* A directory name is a sequence of characters, a path is the sequence of *)
(* names below the root that was given on the command line.                *)
(***************************************************************************)
EXTENDS Integers, Sequences, FiniteSets, TLC

VARIABLES
    fsRoot,           \* the directory tree under root_path, as read_dir lists it
    pattern,          \* the PATTERN argument
    ignore_patterns,  \* IgnorePatterns.patterns: the compiled regexes, in order
    disk,             \* the matched directories on disk: size, protected, present
    heights,          \* the page sizes the terminal's height gives during the run
    walk,             \* the discovery thread: where stream_directories_with_ignore is
    discChan,         \* messages in flight on the discovery channel
    sendLog,          \* every sender.send the discovery thread made, and whether it succeeded
    loop,             \* the main loop: "tick" (top of an iteration), "input" (after the draw)
    quit,             \* the main loop has ended and dropped its receivers
    app,              \* struct App
    items_per_page,   \* the page size the last frame derived from the terminal height
    needs_redraw,     \* the main loop's needs_redraw flag
    sizeChan,         \* size updates in flight: (path, size)
    sizeJobs,         \* the size jobs spawned on the rayon pool that have not finished
    dirCache,         \* DIRECTORY_INDEX_CACHE: path -> index
    computed,         \* what each path's size computation returned
    delChan,          \* DeletionMessages in flight on the deletion channel
    work_queue,       \* DeletionThreadPool.work_queue
    active_tasks,     \* DeletionThreadPool.active_tasks
    workers,          \* the pool's worker threads: where each is in worker_loop
    threads,          \* the deletion threads spawned by start_delete_*
    adding,           \* delete_selected_directories: the tasks it has still to add_task
    started,          \* the tasks in the order the workers dequeued and announced them
    requests          \* the number of delete requests the run can still make

inputVars == <<fsRoot, pattern, ignore_patterns, heights>>
walkVars == <<walk, discChan, sendLog>>
sizeVars == <<sizeChan, sizeJobs, dirCache, computed>>
poolVars == <<work_queue, active_tasks, workers, adding, started>>
vars == <<fsRoot, pattern, ignore_patterns, disk, heights, walk, discChan, sendLog,
          loop, quit, app, items_per_page, needs_redraw, sizeChan, sizeJobs,
          dirCache, computed,
          delChan, work_queue, active_tasks, workers, threads, adding, started,
          requests>>

----------------------------------------------------------------------------
(* Bounds of the model *)

\* the trees walked have at most this many entries below the root
MaxNodes == 3

----------------------------------------------------------------------------
(* Names and regular expressions *)

NM == <<"n", "m">>
TNM == <<"t", "n", "m">>
Names == {NM, TNM}

\* A compiled regex of the shape [^]literal[$]; without an anchor the literal
\* may match anywhere in the name (Regex::is_match does not anchor).
Regex(anchorStart, lit, anchorEnd) ==
    [anchorStart |-> anchorStart, lit |-> lit, anchorEnd |-> anchorEnd]

is_match(re, s) ==
    \E i \in 0..(Len(s) - Len(re.lit)) :
        /\ SubSeq(s, i + 1, i + Len(re.lit)) = re.lit
        /\ re.anchorStart => i = 0
        /\ re.anchorEnd => i + Len(re.lit) = Len(s)

\* a should_ignore that tries the first regex only
should_ignore_first(ip, dir_name) ==
    IF ip = <<>> THEN FALSE ELSE is_match(ip[1], dir_name)

\* IgnorePatterns::should_ignore
should_ignore(ip, dir_name) ==
    IF ip = <<>> THEN FALSE ELSE \E i \in 1..Len(ip) : is_match(ip[i], dir_name)

\* the ignore sets the walks are run with: none, "^nm$", "nm", "x$,^t"
IgnoreSets ==
    { <<>>,
      <<Regex(TRUE, NM, TRUE)>>,
      <<Regex(FALSE, NM, FALSE)>>,
      <<Regex(FALSE, <<"x">>, TRUE), Regex(TRUE, <<"t">>, FALSE)>> }

Patterns == {<<>>, NM}

----------------------------------------------------------------------------
(* Directory trees *)

FileEntry(n) == [name |-> n, kind |-> "file", readable |-> TRUE, sub |-> <<>>]
DirEntry(n, r, s) == [name |-> n, kind |-> "dir", readable |-> r, sub |-> s]

ListingNames(l) == {l[i].name : i \in 1..Len(l)}

RECURSIVE Listings(_)
\* the listings (what read_dir returns, in its order) of trees with exactly n entries
Listings(n) ==
    IF n = 0 THEN {<<>>}
    ELSE UNION { UNION {
            { <<e>> \o rest :
                e \in {x \in ({FileEntry(nm) : nm \in IF k = 0 THEN Names ELSE {}}
                              \cup {DirEntry(nm, FALSE, <<>>) : nm \in IF k = 0 THEN Names ELSE {}}
                              \cup {DirEntry(nm, TRUE, s) : nm \in Names, s \in Listings(k)}) :
                          x.name \notin ListingNames(rest)} }
            : rest \in Listings(n - 1 - k) }
        : k \in 0..(n - 1) }

Trees == UNION {Listings(n) : n \in 0..MaxNodes}

Roots ==
    {[kind |-> "missing", readable |-> FALSE, sub |-> <<>>],
     [kind |-> "file", readable |-> FALSE, sub |-> <<>>],
     [kind |-> "dir", readable |-> FALSE, sub |-> <<>>]}
    \cup {[kind |-> "dir", readable |-> TRUE, sub |-> t] : t \in Trees}

----------------------------------------------------------------------------
(* struct App: construction and admission of discovered directories *)

\* DirectoryInfo as process_pending_batch builds it
NewDirectoryInfo(dir_path) ==
    [path |-> dir_path, size |-> 0, selected |-> FALSE,
     deletion_status |-> "Normal", calculation_status |-> "NotStarted"]

\* App::new_with_ignore
new_with_ignore(directories) ==
    [directories |-> directories,
     selected |-> 0,
     current_page |-> 0,
     selection_mode |-> FALSE,
     deletion_progress |-> FALSE,
     deletion_sender |-> FALSE,
     deletion_thread_pool |-> FALSE,
     total_freed_space |-> 0,
     freed_space_history |-> <<>>,
     discovery_status |-> "NotStarted",
     pending_directories |-> <<>>,
     batch_size |-> 5,
     total_discovered |-> 0]

Min(a, b) == IF a < b THEN a ELSE b

\* a process_pending_batch that puts the batch before the entries of the list
process_pending_batch_front(a) ==
    IF a.pending_directories = <<>> THEN a
    ELSE LET n == Min(a.batch_size, Len(a.pending_directories))
             batch == SubSeq(a.pending_directories, 1, n)
         IN [a EXCEPT
                !.pending_directories = SubSeq(@, n + 1, Len(@)),
                !.directories = [i \in 1..n |-> NewDirectoryInfo(batch[i])] \o @]

\* App::process_pending_batch
process_pending_batch(a) ==
    IF a.pending_directories = <<>> THEN a
    ELSE LET n == Min(a.batch_size, Len(a.pending_directories))
             batch == SubSeq(a.pending_directories, 1, n)
         IN [a EXCEPT
                !.pending_directories = SubSeq(@, n + 1, Len(@)),
                !.directories = @ \o [i \in 1..n |-> NewDirectoryInfo(batch[i])]]

\* an add_discovered_directory that promotes only a buffer longer than batch_size
add_discovered_directory_late(a, path) ==
    LET b == [a EXCEPT !.pending_directories = Append(@, path),
                       !.total_discovered = @ + 1]
    IN IF Len(b.pending_directories) > b.batch_size
       THEN process_pending_batch(b) ELSE b

\* App::add_discovered_directory
add_discovered_directory(a, path) ==
    LET b == [a EXCEPT !.pending_directories = Append(@, path),
                       !.total_discovered = @ + 1]
    IN IF Len(b.pending_directories) >= b.batch_size
       THEN process_pending_batch(b) ELSE b

RECURSIVE process_remaining_pending(_)
\* App::process_remaining_pending
process_remaining_pending(a) ==
    IF a.pending_directories = <<>> THEN a
    ELSE process_remaining_pending(process_pending_batch(a))

\* a set_discovery_status that leaves the pending buffer as it is
set_discovery_status_unflushed(a, status) == [a EXCEPT !.discovery_status = status]

\* App::set_discovery_status
set_discovery_status(a, status) ==
    LET b == [a EXCEPT !.discovery_status = status]
    IN IF status = "Complete" THEN process_remaining_pending(b) ELSE b

\* App::is_deleting
is_deleting(a) == a.deletion_progress

\* App::is_discovering
is_discovering(a) == a.discovery_status = "Discovering"

----------------------------------------------------------------------------
(* struct App: navigation, pagination and selection.  selected and the page *)
(* are usize: 0-based.  directories is 1-based here, so directories[i] of   *)
(* the code is a.directories[i + 1].                                        *)

\* usize::saturating_sub
saturating_sub(a, b) == IF a >= b THEN a - b ELSE 0

\* App::update_selection_for_pagination
update_selection_for_pagination(a, ipp) ==
    LET sel == IF a.selected >= Len(a.directories)
               THEN saturating_sub(Len(a.directories), 1) ELSE a.selected
    IN [a EXCEPT !.selected = sel, !.current_page = sel \div ipp]

\* a next that stops at the last entry
next_stopping(a, ipp) ==
    IF a.directories # <<>>
    THEN update_selection_for_pagination([a EXCEPT !.selected = a.selected + 1], ipp)
    ELSE a

\* App::next
next(a, ipp) ==
    IF a.directories # <<>>
    THEN update_selection_for_pagination(
             [a EXCEPT !.selected = (a.selected + 1) % Len(a.directories)], ipp)
    ELSE a

\* App::previous
previous(a, ipp) ==
    IF a.directories # <<>>
    THEN update_selection_for_pagination(
             [a EXCEPT !.selected = IF a.selected = 0 THEN Len(a.directories) - 1
                                    ELSE a.selected - 1], ipp)
    ELSE a

\* App::select_first
select_first(a) ==
    IF a.directories # <<>> THEN [a EXCEPT !.selected = 0] ELSE a

\* App::select_last
select_last(a) ==
    IF a.directories # <<>> THEN [a EXCEPT !.selected = Len(a.directories) - 1] ELSE a

\* App::total_pages
total_pages(a, ipp) ==
    IF a.directories = <<>> \/ ipp = 0 THEN 0
    ELSE (Len(a.directories) - 1) \div ipp + 1

\* App::next_page
next_page(a, ipp) ==
    IF a.current_page < saturating_sub(total_pages(a, ipp), 1)
    THEN [a EXCEPT !.current_page = a.current_page + 1,
                   !.selected = (a.current_page + 1) * ipp]
    ELSE a

\* App::previous_page
previous_page(a, ipp) ==
    IF a.current_page > 0
    THEN [a EXCEPT !.current_page = a.current_page - 1,
                   !.selected = (a.current_page - 1) * ipp]
    ELSE a

\* App::go_to_page
go_to_page(a, page, ipp) ==
    IF page < total_pages(a, ipp)
    THEN [a EXCEPT !.current_page = page, !.selected = page * ipp]
    ELSE a

\* App::get_selected_directory is Some
has_selected_directory(a) == a.selected < Len(a.directories)

\* App::toggle_selection_mode
toggle_selection_mode(a) == [a EXCEPT !.selection_mode = ~@]

\* a toggle that also moves the cursor on to the next entry
toggle_current_selection_advancing(a) ==
    IF a.directories # <<>> /\ a.selected < Len(a.directories)
    THEN [a EXCEPT !.directories[a.selected + 1].selected = ~@,
                   !.selected = (a.selected + 1) % Len(a.directories)]
    ELSE a

\* App::toggle_current_selection
toggle_current_selection(a) ==
    IF a.directories # <<>> /\ a.selected < Len(a.directories)
    THEN [a EXCEPT !.directories[a.selected + 1].selected = ~@]
    ELSE a

\* a select_all that flips the flag of every entry
select_all_flipping(a) ==
    [a EXCEPT !.directories = [i \in 1..Len(@) |-> [@[i] EXCEPT !.selected = ~@]]]

\* App::select_all
select_all(a) ==
    [a EXCEPT !.directories = [i \in 1..Len(@) |-> [@[i] EXCEPT !.selected = TRUE]]]

\* App::deselect_all
deselect_all(a) ==
    [a EXCEPT !.directories = [i \in 1..Len(@) |-> [@[i] EXCEPT !.selected = FALSE]]]

\* App::select_current
select_current(a) ==
    IF a.directories # <<>> /\ a.selected < Len(a.directories)
    THEN [a EXCEPT !.directories[a.selected + 1].selected = TRUE]
    ELSE a

\* App::deselect_current
deselect_current(a) ==
    IF a.directories # <<>> /\ a.selected < Len(a.directories)
    THEN [a EXCEPT !.directories[a.selected + 1].selected = FALSE]
    ELSE a

\* App::get_selected_count
get_selected_count(a) ==
    Cardinality({i \in 1..Len(a.directories) : a.directories[i].selected})

\* the indices (0-based, ascending) of the entries with selected == true
selected_indices(a) ==
    LET S == {i \in 0..(Len(a.directories) - 1) : a.directories[i + 1].selected}
        RECURSIVE Asc(_, _)
        Asc(T, from) ==
            IF T = {} THEN <<>>
            ELSE IF from \in T THEN <<from>> \o Asc(T \ {from}, from + 1)
            ELSE Asc(T, from + 1)
    IN Asc(S, 0)

----------------------------------------------------------------------------
(* The main loop's drain of the discovery channel *)

Found(path) == [type |-> "DirectoryFound", path |-> path]
DiscoveryComplete == [type |-> "DiscoveryComplete"]

\* the arm of the match for one message
ApplyDiscoveryMessage(a, message) ==
    IF message.type = "DirectoryFound" THEN add_discovered_directory(a, message.path)
    ELSE IF message.type = "DiscoveryComplete" THEN set_discovery_status(a, "Complete")
    ELSE set_discovery_status(a, "Error")

RECURSIVE DrainDiscoveryWide(_, _, _)
\* a drain whose limit while the App is Discovering is twice what it is
DrainDiscoveryWide(a, chan, processed) ==
    IF chan = <<>> THEN [app |-> a, chan |-> chan]
    ELSE LET message == Head(chan)
             b == ApplyDiscoveryMessage(a, message)
             n == IF message.type = "DirectoryFound" THEN processed + 1 ELSE processed
             max_discovery_messages == IF is_discovering(b) THEN 40 ELSE 10
         IN IF n >= max_discovery_messages
            THEN [app |-> b, chan |-> Tail(chan)]
            ELSE DrainDiscoveryWide(b, Tail(chan), n)

RECURSIVE DrainDiscovery(_, _, _)
\* while let Ok(message) = discovery_rx.try_recv() { ... }: the app and the
\* channel after the loop; processed counts the DirectoryFound messages only
DrainDiscovery(a, chan, processed) ==
    IF chan = <<>> THEN [app |-> a, chan |-> chan]
    ELSE LET message == Head(chan)
             b == ApplyDiscoveryMessage(a, message)
             n == IF message.type = "DirectoryFound" THEN processed + 1 ELSE processed
             max_discovery_messages == IF is_discovering(b) THEN 20 ELSE 10
         IN IF n >= max_discovery_messages
            THEN [app |-> b, chan |-> Tail(chan)]
            ELSE DrainDiscovery(b, Tail(chan), n)

----------------------------------------------------------------------------
(* The main loop's drain of the size channel *)

\* a lookup that takes the entry admitted last, whatever its path is
position_of_last(directories, path) == Len(directories) - 1

\* directories.iter().position(|d| d.path == path), -1 for None (usize::MAX)
position(directories, path) ==
    LET hits == {i \in 0..(Len(directories) - 1) : directories[i + 1].path = path}
    IN IF hits = {} THEN -1 ELSE CHOOSE i \in hits : \A j \in hits : i <= j

\* the index the cache gives for path when it is still right, else the index a
\* linear search finds
lookup_index(directories, cache, path) ==
    IF path \in DOMAIN cache
       /\ cache[path] < Len(directories)
       /\ directories[cache[path] + 1].path = path
    THEN cache[path]
    ELSE position(directories, path)

\* global_cache.insert(path, idx) when the linear search found it
cache_after(directories, cache, path) ==
    LET idx == lookup_index(directories, cache, path)
    IN IF idx # -1
       THEN [p \in DOMAIN cache \cup {path} |-> IF p = path THEN idx ELSE cache[p]]
       ELSE cache

\* the body of the loop for one (path, size, formatted_size)
apply_size_update(a, index, size) ==
    IF index # -1 /\ index < Len(a.directories)
    THEN [a EXCEPT !.directories[index + 1].size = size,
                   !.directories[index + 1].calculation_status = "Completed"]
    ELSE a

RECURSIVE DrainSize(_, _, _, _)
\* while let Ok(..) = size_rx.try_recv() { ... if size_updates_processed >= 5 { break } }
DrainSize(a, chan, cache, processed) ==
    IF chan = <<>> THEN [app |-> a, chan |-> chan, cache |-> cache]
    ELSE LET update == Head(chan)
             index == lookup_index(a.directories, cache, update.path)
             b == apply_size_update(a, index, update.size)
             c == cache_after(a.directories, cache, update.path)
         IN IF processed + 1 >= 5
            THEN [app |-> b, chan |-> Tail(chan), cache |-> c]
            ELSE DrainSize(b, Tail(chan), c, processed + 1)

----------------------------------------------------------------------------
(* App::process_deletion_messages *)

StartSingle(index) == [type |-> "StartSingle", index |-> index]
StartMultiple(indices) == [type |-> "StartMultiple", indices |-> indices]
Progress(index) == [type |-> "Progress", index |-> index, status |-> "Deleting"]
Complete(results) == [type |-> "Complete", results |-> results]
DeletionResult(index, path, success) ==
    [index |-> index, path |-> path, success |-> success]

\* directories[index].deletion_status = status, when index < directories.len()
set_deletion_status(a, index, status) ==
    IF index < Len(a.directories)
    THEN [a EXCEPT !.directories[index + 1].deletion_status = status]
    ELSE a

RECURSIVE mark_all_deleting(_, _)
mark_all_deleting(a, indices) ==
    IF indices = <<>> THEN a
    ELSE mark_all_deleting(set_deletion_status(a, Head(indices), "Deleting"),
                           Tail(indices))

\* a mistaken arm: a failed result is credited as a successful one is
apply_result_credited(a, result) ==
    IF result.index < Len(a.directories)
    THEN LET freed_size == a.directories[result.index + 1].size
         IN [a EXCEPT
                !.total_freed_space = @ + freed_size,
                !.freed_space_history =
                    Append(@, [path |-> result.path, size |-> freed_size]),
                !.directories[result.index + 1].deletion_status =
                    IF result.success THEN "Deleted" ELSE "Error"]
    ELSE a

\* a mistaken arm: the freed size is added to the total and no row is pushed
apply_result_unlogged(a, result) ==
    IF result.index < Len(a.directories)
    THEN IF result.success
         THEN [a EXCEPT
                  !.total_freed_space = @ + a.directories[result.index + 1].size,
                  !.directories[result.index + 1].deletion_status = "Deleted"]
         ELSE [a EXCEPT !.directories[result.index + 1].deletion_status = "Error"]
    ELSE a

\* the body of `for result in results` for one result
apply_result(a, result) ==
    IF result.index < Len(a.directories)
    THEN IF result.success
         THEN LET freed_size == a.directories[result.index + 1].size
              IN [a EXCEPT
                     !.total_freed_space = @ + freed_size,
                     !.freed_space_history =
                         Append(@, [path |-> result.path, size |-> freed_size]),
                     !.directories[result.index + 1].deletion_status = "Deleted"]
         ELSE [a EXCEPT !.directories[result.index + 1].deletion_status = "Error"]
    ELSE a

RECURSIVE apply_results_reversed(_, _)
\* a loop over the results that takes the last result first
apply_results_reversed(a, results) ==
    IF results = <<>> THEN a
    ELSE apply_result(apply_results_reversed(a, Tail(results)), Head(results))

RECURSIVE apply_results(_, _)
apply_results(a, results) ==
    IF results = <<>> THEN a
    ELSE apply_results(apply_result(a, Head(results)), Tail(results))

\* the arm of the match for one DeletionMessage
apply_deletion_message(a, message) ==
    IF message.type = "StartSingle"
    THEN set_deletion_status(a, message.index, "Deleting")
    ELSE IF message.type = "StartMultiple"
    THEN mark_all_deleting(a, message.indices)
    ELSE IF message.type = "Progress"
    THEN set_deletion_status(a, message.index, message.status)
    ELSE [apply_results(a, message.results) EXCEPT !.deletion_progress = FALSE]

RECURSIVE process_deletion_messages(_, _)
\* App::process_deletion_messages: every message that is there is taken
process_deletion_messages(a, chan) ==
    IF chan = <<>> THEN a
    ELSE process_deletion_messages(apply_deletion_message(a, Head(chan)), Tail(chan))

----------------------------------------------------------------------------
(* The main loop's dispatch of size calculations *)

RECURSIVE not_started_paths(_, _)
\* the paths of the first n entries whose calculation_status is NotStarted
not_started_paths(directories, n) ==
    IF directories = <<>> \/ n = 0 THEN <<>>
    ELSE IF Head(directories).calculation_status = "NotStarted"
    THEN <<Head(directories).path>> \o not_started_paths(Tail(directories), n - 1)
    ELSE not_started_paths(Tail(directories), n)

\* .filter(NotStarted).take(3)
paths_to_calculate(a) ==
    IF a.directories # <<>> /\ (~is_discovering(a) \/ Len(a.directories) >= 10)
    THEN not_started_paths(a.directories, 3)
    ELSE <<>>

\* a dispatch that leaves the entries NotStarted
mark_calculating_skipped(a, paths) == a

RECURSIVE mark_calculating(_, _)
\* directories.iter_mut().find(|d| d.path == *path): the first entry of that path
mark_calculating(a, paths) ==
    IF paths = <<>> THEN a
    ELSE LET i == position(a.directories, Head(paths))
         IN mark_calculating(
                IF i # -1
                THEN [a EXCEPT !.directories[i + 1].calculation_status = "Calculating"]
                ELSE a,
                Tail(paths))

----------------------------------------------------------------------------
(* The discovery thread: stream_directories_with_ignore *)

\* sender.send(msg): delivered unless the receiver was dropped
SendDiscovery(msg) ==
    /\ discChan' = IF quit THEN discChan ELSE Append(discChan, msg)
    /\ sendLog' = Append(sendLog, [msg |-> msg, ok |-> ~quit])

WalkReturned(result) == [pc |-> "returned", stack |-> <<>>, result |-> result]

Frame(path, todo) == [path |-> path, todo |-> todo]

\* a start without the validation: only the first read_dir can fail
WalkStartUnvalidated ==
    /\ walk.pc = "init"
    /\ walk' = IF ~fsRoot.readable
               THEN WalkReturned("err")
               ELSE [pc |-> "walking", stack |-> <<Frame(<<>>, fsRoot.sub)>>,
                     result |-> "none"]
    /\ UNCHANGED <<inputVars, disk, discChan, sendLog, loop, needs_redraw, quit, app, items_per_page,
                   sizeVars, delChan, threads, requests, poolVars>>

\* the validation of the inputs and the first read_dir, of the root
WalkStart ==
    /\ walk.pc = "init"
    /\ walk' = IF pattern = <<>> \/ fsRoot.kind # "dir" \/ ~fsRoot.readable
               THEN WalkReturned("err")
               ELSE [pc |-> "walking", stack |-> <<Frame(<<>>, fsRoot.sub)>>,
                     result |-> "none"]
    /\ UNCHANGED <<inputVars, disk, discChan, sendLog, loop, needs_redraw, quit, app, items_per_page,
                   sizeVars, delChan, threads, requests, poolVars>>

\* what the loop body does with a directory that is neither ignored nor a match:
\* the recursive call, whose read_dir error is passed up by every `?`
Descend(stack, path, entry) ==
    IF entry.readable
    THEN [pc |-> "walking", stack |-> <<Frame(path, entry.sub)>> \o stack,
          result |-> "none"]
    ELSE WalkReturned("err")

\* the frame on top of the stack with its first entry done
Continue(stack) ==
    [pc |-> "walking",
     stack |-> <<Frame(Head(stack).path, Tail(Head(stack).todo))>> \o Tail(stack),
     result |-> "none"]

\* a walk that goes into the directory it has just reported
AfterFoundDescends(stack, path, entry) == Descend(stack, path, entry)

\* after a DirectoryFound that was sent: `if dir_name == pattern { continue; }`
AfterFound(stack, path, entry) == Continue(stack)

\* `return Ok(())` of the innermost call: its caller, whose first entry is the
\* directory that call was made for, goes on with its next entry
ReturnOk(stack) ==
    IF Tail(stack) = <<>>
    THEN [pc |-> "finishing", stack |-> <<>>, result |-> "none"]
    ELSE Continue(Tail(stack))

\* one iteration of the for loop of stream_directories_recursive_with_depth
WalkEntry ==
    /\ walk.pc = "walking"
    /\ Head(walk.stack).todo # <<>>
    /\ LET frame == Head(walk.stack)
           entry == Head(frame.todo)
           path == Append(frame.path, entry.name)
       IN IF entry.kind # "dir"
          THEN /\ walk' = Continue(walk.stack)
               /\ UNCHANGED <<discChan, sendLog>>
          ELSE IF should_ignore(ignore_patterns, entry.name)
          THEN /\ walk' = Continue(walk.stack)
               /\ UNCHANGED <<discChan, sendLog>>
          ELSE IF entry.name = pattern
          THEN /\ SendDiscovery(Found(path))
               /\ walk' = IF quit THEN ReturnOk(walk.stack)
                          ELSE AfterFound(walk.stack, path, entry)
          ELSE /\ walk' = Descend(walk.stack, path, entry)
               /\ UNCHANGED <<discChan, sendLog>>
    /\ UNCHANGED <<inputVars, disk, loop, needs_redraw, quit, app, items_per_page, sizeVars, delChan,
                   threads, requests, poolVars>>

\* the for loop is over: Ok(()) to the caller
WalkReturn ==
    /\ walk.pc = "walking"
    /\ Head(walk.stack).todo = <<>>
    /\ walk' = ReturnOk(walk.stack)
    /\ UNCHANGED <<inputVars, disk, discChan, sendLog, loop, needs_redraw, quit, app, items_per_page,
                   sizeVars, delChan, threads, requests, poolVars>>

\* a stream_directories_with_ignore that returns Ok without the last send
WalkCompleteSilent ==
    /\ walk.pc = "finishing"
    /\ walk' = WalkReturned("ok")
    /\ UNCHANGED <<inputVars, disk, discChan, sendLog, loop, needs_redraw, quit, app, items_per_page,
                   sizeVars, delChan, threads, requests, poolVars>>

\* let _ = sender.send(DiscoveryMessage::DiscoveryComplete); Ok(())
WalkComplete ==
    /\ walk.pc = "finishing"
    /\ SendDiscovery(DiscoveryComplete)
    /\ walk' = WalkReturned("ok")
    /\ UNCHANGED <<inputVars, disk, loop, needs_redraw, quit, app, items_per_page, sizeVars, delChan,
                   threads, requests, poolVars>>

----------------------------------------------------------------------------
(* The main loop of display_directories_tui *)

\* `let should_redraw = .. || app.is_discovering() || needs_redraw`, where
\* changed says that a count or the page is not the one seen last; with
\* `if should_redraw { needs_redraw = true; }` it is the flag's value from there on
should_redraw(a, changed, flag) == changed \/ is_discovering(a) \/ flag

\* has_size_updates: a size update that was taken was of a path of the list
has_size_updates(a, taken) == \E k \in 1..Len(taken) : position(a.directories, taken[k].path) >= 0

\* what the comparisons of the counts and of the times can give; they bear on
\* the iteration only when the flag is clear
Outcomes(flag) == IF flag THEN {FALSE} ELSE BOOLEAN

\* the flag after terminal.draw: `needs_redraw = true;`
FlagAfterDraw == TRUE

\* one iteration up to and including terminal.draw: the sleep when nothing is
\* to be drawn and the frame is early, else the three drains, the dispatch of
\* size jobs, then, unless nothing changed, the frame, whose footer reads
\* directories[app.selected] and panics when that is out of bounds
Tick ==
    /\ loop = "tick"
    /\ \E changed \in Outcomes(needs_redraw) : \E early \in Outcomes(needs_redraw) :
       LET flag == should_redraw(app, changed, needs_redraw)
           d == DrainDiscovery(app, discChan, 0)
           z == DrainSize(d.app, sizeChan, dirCache, 0)
           x == process_deletion_messages(z.app, delChan)
           paths == paths_to_calculate(x)
           y == mark_calculating(x, paths)
           panics == y.directories # <<>> /\ y.selected >= Len(y.directories)
           has_discovery_updates == d.chan # discChan
           taken == SubSeq(sizeChan, 1, Len(sizeChan) - Len(z.chan))
       IN IF ~flag /\ early
          THEN /\ needs_redraw' = flag
               /\ UNCHANGED <<app, discChan, sizeChan, dirCache, delChan, sizeJobs, loop,
                              quit, items_per_page>>
          ELSE /\ app' = y
               /\ discChan' = d.chan
               /\ sizeChan' = z.chan
               /\ dirCache' = z.cache
               /\ delChan' = <<>>
               /\ sizeJobs' = IF paths = <<>> THEN sizeJobs
                              ELSE Append(sizeJobs, [paths |-> paths, results |-> <<>>])
               /\ IF ~flag /\ ~has_discovery_updates /\ ~has_size_updates(d.app, taken)
                  THEN /\ needs_redraw' = flag
                       /\ UNCHANGED <<loop, quit, items_per_page>>
                  ELSE /\ loop' = IF panics THEN "panicked" ELSE "input"
                       /\ quit' = panics
                       /\ needs_redraw' = IF panics THEN flag ELSE FlagAfterDraw
                       /\ \E h \in heights :
                              items_per_page' = IF panics THEN items_per_page ELSE h
    /\ UNCHANGED <<inputVars, disk, walk, sendLog, computed, threads, requests, poolVars>>

\* event::poll timed out, or the key is bound to nothing
NoKey ==
    /\ loop = "input"
    /\ loop' = "tick"
    /\ UNCHANGED <<inputVars, disk, walkVars, quit, needs_redraw, app, items_per_page, sizeVars,
                   delChan, threads, requests, poolVars>>

\* 'q' or Esc: break; discovery_rx, size_rx and the App are dropped
KeyQuit ==
    /\ loop = "input"
    /\ loop' = "done"
    /\ quit' = TRUE
    /\ UNCHANGED <<inputVars, disk, walkVars, app, needs_redraw, items_per_page, sizeVars,
                   delChan, threads, requests, poolVars>>

NavKeys == {"Up", "Down", "Home", "End", "Left", "Right"}
SelectKeys == {"Space", "a", "d", "s"}

\* the arms of the match on key_event.code that only call an App method
HandleKey(a, key, ipp) ==
    CASE key = "Up" -> previous(a, ipp)
      [] key = "Down" -> next(a, ipp)
      [] key = "Home" -> select_first(a)
      [] key = "End" -> select_last(a)
      [] key = "Left" -> previous_page(a, ipp)
      [] key = "Right" -> next_page(a, ipp)
      [] key = "Space" -> toggle_current_selection(a)
      [] key = "a" -> select_all(a)
      [] key = "s" -> toggle_selection_mode(a)
      [] key = "d" -> deselect_all(a)

KeyPress(key) ==
    /\ loop = "input"
    /\ app' = HandleKey(app, key, items_per_page)
    /\ needs_redraw' = TRUE
    /\ loop' = "tick"
    /\ UNCHANGED <<inputVars, disk, walkVars, quit, items_per_page, sizeVars,
                   delChan, threads, requests, poolVars>>

KeyNavigate == \E key \in NavKeys : KeyPress(key)

KeySelect == \E key \in SelectKeys : KeyPress(key)

----------------------------------------------------------------------------
(* Removal of a directory: std::fs::remove_dir_all.  It fails at once when   *)
(* the path is not there; a removal that began while the path was there ends *)
(* Ok even when a concurrent removal of the same path ends first.            *)

\* the removal can begin: the path exists
remove_begins(path) == path \in disk.present

\* the result of a removal that began
remove_succeeds(path) == path \notin disk.protected

disk_after_remove(path) ==
    IF remove_succeeds(path) THEN [disk EXCEPT !.present = @ \ {path}] ELSE disk

----------------------------------------------------------------------------
(* The deletion threads spawned by start_delete_current_directory and       *)
(* start_delete_selected_directories                                        *)

\* the number of delete requests a run of the terminal UI makes
MaxRequests == 2

Item(a, index) == [index |-> index, path |-> a.directories[index + 1].path]

\* a spawned thread: the entries it removes in order, the one it is at, its
\* place in the closure, the results it has collected
NewThread(kind, items) ==
    [kind |-> kind, items |-> items, i |-> 1,
     pc |-> IF kind = "single" THEN "remove" ELSE "progress", results |-> <<>>]

\* App::init_deletion_channel, when the channel is not there yet
init_deletion_channel(a) ==
    [a EXCEPT !.deletion_sender = TRUE, !.deletion_thread_pool = TRUE]

\* App::start_delete_current_directory (the Err branch changes nothing)
start_delete_current_directory ==
    IF has_selected_directory(app)
    THEN /\ app' = [(IF app.deletion_sender THEN app ELSE init_deletion_channel(app))
                       EXCEPT !.deletion_progress = TRUE]
         /\ delChan' = Append(delChan, StartSingle(app.selected))
         /\ threads' = Append(threads, NewThread("single", <<Item(app, app.selected)>>))
    ELSE UNCHANGED <<app, delChan, threads>>

\* App::start_delete_selected_directories
start_delete_selected_directories ==
    LET indices == selected_indices(app)
    IN IF indices = <<>>
       THEN UNCHANGED <<app, delChan, threads>>
       ELSE /\ app' = [(IF app.deletion_sender THEN app ELSE init_deletion_channel(app))
                          EXCEPT !.deletion_progress = TRUE]
            /\ delChan' = Append(delChan, StartMultiple(indices))
            /\ threads' = Append(threads,
                   NewThread("multi", [k \in 1..Len(indices) |-> Item(app, indices[k])]))

\* 'f', Ctrl-d, Ctrl-x
KeyDeleteCurrent ==
    /\ loop = "input"
    /\ requests > 0
    /\ requests' = requests - 1
    /\ IF app.directories # <<>>
       THEN start_delete_current_directory /\ needs_redraw' = TRUE
       ELSE UNCHANGED <<app, delChan, threads, needs_redraw>>
    /\ loop' = "tick"
    /\ UNCHANGED <<inputVars, disk, walkVars, quit, items_per_page, sizeVars, poolVars>>

\* 'c'
KeyDeleteSelected ==
    /\ loop = "input"
    /\ requests > 0
    /\ requests' = requests - 1
    /\ IF get_selected_count(app) > 0
       THEN start_delete_selected_directories /\ needs_redraw' = TRUE
       ELSE UNCHANGED <<app, delChan, threads, needs_redraw>>
    /\ loop' = "tick"
    /\ UNCHANGED <<inputVars, disk, walkVars, quit, items_per_page, sizeVars, poolVars>>

\* the codes of the key events: those the match names, and one it does not
KeyCodes == {"q", "Esc", "Up", "k", "Down", "j", "Home", "End", "Left", "Right",
             " ", "a", "s", "f", "c", "x", "d", "z"}

\* a match in which the arm of 'd' without a guard comes before the arm of the
\* Control combinations
KeyArmBareFirst(code, ctrl) ==
    CASE code \in {"q", "Esc"} -> "quit"
      [] code \in {"Up", "k"} -> "Up"
      [] code \in {"Down", "j"} -> "Down"
      [] code \in {"Home", "End", "Left", "Right", "a", "s"} -> code
      [] code = " " -> "Space"
      [] code = "f" -> "delete_current"
      [] code = "c" -> "delete_selected"
      [] code = "d" -> "d"
      [] code = "x" /\ ctrl -> "delete_current"
      [] OTHER -> "none"

\* match key_event.code: the arm that is taken, the first in the order of the
\* source whose pattern and guard hold; the modifiers are looked at by the
\* guards of the last two arms only
KeyArm(code, ctrl) ==
    CASE code \in {"q", "Esc"} -> "quit"
      [] code \in {"Up", "k"} -> "Up"
      [] code \in {"Down", "j"} -> "Down"
      [] code \in {"Home", "End", "Left", "Right", "a", "s"} -> code
      [] code = " " -> "Space"
      [] code = "f" -> "delete_current"
      [] code = "c" -> "delete_selected"
      [] code \in {"x", "d"} /\ ctrl -> "delete_current"
      [] code = "d" /\ ~ctrl -> "d"
      [] OTHER -> "none"

\* a key event was read: what its arm does
KeyEvent(code, ctrl) ==
    \/ KeyArm(code, ctrl) = "quit" /\ KeyQuit
    \/ KeyArm(code, ctrl) \in NavKeys \cup SelectKeys /\ KeyPress(KeyArm(code, ctrl))
    \/ KeyArm(code, ctrl) = "delete_current" /\ KeyDeleteCurrent
    \/ KeyArm(code, ctrl) = "delete_selected" /\ KeyDeleteSelected
    \/ KeyArm(code, ctrl) = "none" /\ NoKey

KeyEvents == \E code \in KeyCodes : \E ctrl \in BOOLEAN : KeyEvent(code, ctrl)

\* sender_clone.send(msg): the receiver lives in the App
SendDeletion(msg) == delChan' = IF quit THEN delChan ELSE Append(delChan, msg)

SetThread(t, th) == threads' = [threads EXCEPT ![t] = th]

EndThread(t) ==
    threads' = SubSeq(threads, 1, t - 1) \o SubSeq(threads, t + 1, Len(threads))

\* the thread after the result of its entry i: on to the next entry, or to
\* the Complete message
AfterResult(th, success) ==
    LET item == th.items[th.i]
        results == Append(th.results, DeletionResult(item.index, item.path, success))
    IN IF th.i < Len(th.items)
       THEN [th EXCEPT !.results = results, !.i = th.i + 1, !.pc = "progress"]
       ELSE [th EXCEPT !.results = results, !.pc = "complete"]

\* start_delete_selected_directories: the Progress message before each removal
ThreadProgress(t) ==
    /\ threads[t].pc = "progress"
    /\ SendDeletion(Progress(threads[t].items[threads[t].i].index))
    /\ SetThread(t, [threads[t] EXCEPT !.pc = "remove"])
    /\ UNCHANGED <<inputVars, disk, walkVars, loop, needs_redraw, quit, app, items_per_page, sizeVars,
                   requests, poolVars>>

\* remove_dir_all begins, or fails because the path is not there
ThreadRemoveBegin(t) ==
    /\ threads[t].pc = "remove"
    /\ SetThread(t, IF remove_begins(threads[t].items[threads[t].i].path)
                    THEN [threads[t] EXCEPT !.pc = "removing"]
                    ELSE AfterResult(threads[t], FALSE))
    /\ UNCHANGED <<inputVars, disk, walkVars, loop, needs_redraw, quit, app, items_per_page, sizeVars,
                   delChan, requests, poolVars>>

\* remove_dir_all returns
ThreadRemoveEnd(t) ==
    /\ threads[t].pc = "removing"
    /\ LET path == threads[t].items[threads[t].i].path
       IN /\ disk' = disk_after_remove(path)
          /\ SetThread(t, AfterResult(threads[t], remove_succeeds(path)))
    /\ UNCHANGED <<inputVars, walkVars, loop, needs_redraw, quit, app, items_per_page, sizeVars,
                   delChan, requests, poolVars>>

\* the Complete message, with which the thread ends
ThreadComplete(t) ==
    /\ threads[t].pc = "complete"
    /\ SendDeletion(Complete(threads[t].results))
    /\ EndThread(t)
    /\ UNCHANGED <<inputVars, disk, walkVars, loop, needs_redraw, quit, app, items_per_page, sizeVars,
                   requests, poolVars>>

DeletionThread ==
    \E t \in 1..Len(threads) :
        \/ ThreadProgress(t)
        \/ ThreadRemoveBegin(t)
        \/ ThreadRemoveEnd(t)
        \/ ThreadComplete(t)

----------------------------------------------------------------------------
(* DeletionThreadPool *)

\* enum DeletionPriority, in its derived order
Small == 0
Medium == 1
Large == 2
Huge == 3

\* the workers init_deletion_channel creates the pool with
PoolWorkers == 4

\* a classification whose bounds are exclusive
get_deletion_priority_exclusive(size) ==
    IF size < 1048576 THEN Small
    ELSE IF size < 104857600 THEN Medium
    ELSE IF size < 1073741824 THEN Large
    ELSE Huge

\* get_deletion_priority
get_deletion_priority(size) ==
    IF size <= 1048576 THEN Small
    ELSE IF size <= 104857600 THEN Medium
    ELSE IF size <= 1073741824 THEN Large
    ELSE Huge

\* struct DeletionTask; id numbers the tasks in the order of their add_task
DeletionTask(a, index, id) ==
    [index |-> index,
     path |-> a.directories[index + 1].path,
     priority |-> get_deletion_priority(a.directories[index + 1].size),
     size |-> a.directories[index + 1].size,
     id |-> id]

\* the place add_task's loop inserts at: before the first task of a strictly
\* greater priority, else at the back
insert_position(queue, task) ==
    LET later == {i \in 1..Len(queue) : task.priority < queue[i].priority}
    IN IF later = {} THEN Len(queue) + 1 ELSE CHOOSE i \in later : \A j \in later : i <= j

\* an add_task that always pushes at the back
add_task_back(queue, task) == Append(queue, task)

\* an add_task that inserts before the first task of the same or a greater
\* priority
add_task_before_equals(queue, task) ==
    LET later == {i \in 1..Len(queue) : task.priority <= queue[i].priority}
        i == IF later = {} THEN Len(queue) + 1
             ELSE CHOOSE k \in later : \A j \in later : k <= j
    IN SubSeq(queue, 1, i - 1) \o <<task>> \o SubSeq(queue, i, Len(queue))

\* DeletionThreadPool::add_task
add_task(queue, task) ==
    LET i == insert_position(queue, task)
    IN SubSeq(queue, 1, i - 1) \o <<task>> \o SubSeq(queue, i, Len(queue))

Event(what, task) == [what |-> what, id |-> task.id, index |-> task.index,
                      priority |-> task.priority]

Enqueued(log) == Cardinality({i \in 1..Len(log) : log[i].what = "enqueued"})

\* delete_selected_directories, one pass of `for task in tasks { add_task }`
AddTask ==
    /\ adding # <<>>
    /\ work_queue' = add_task(work_queue, Head(adding))
    /\ adding' = Tail(adding)
    /\ started' = Append(started, Event("enqueued", Head(adding)))
    /\ UNCHANGED <<inputVars, disk, walkVars, loop, needs_redraw, quit, app, items_per_page, sizeVars,
                   delChan, threads, requests, active_tasks, workers>>

\* DeletionThreadPool::active_task_count
active_task_count == active_tasks

\* DeletionThreadPool::queued_task_count
queued_task_count == Len(work_queue)

\* DeletionThreadPool::is_idle
is_idle == active_task_count = 0 /\ queued_task_count = 0

Idle == [pc |-> "idle"]

\* the worker threads run the same code: the one that takes a task is, of
\* those that could, the first
FirstIdle(w) == workers[w].pc = "idle" /\ \A v \in 1..(w - 1) : workers[v].pc # "idle"

\* queue.pop_front() gave a task
WorkerPop(w) ==
    /\ app.deletion_thread_pool
    /\ FirstIdle(w)
    /\ work_queue # <<>>
    /\ work_queue' = Tail(work_queue)
    /\ workers' = [workers EXCEPT ![w] = [pc |-> "count", task |-> Head(work_queue)]]
    /\ started' = Append(started, Event("dequeued", Head(work_queue)))
    /\ UNCHANGED <<inputVars, disk, walkVars, loop, needs_redraw, quit, app, items_per_page, sizeVars,
                   delChan, threads, requests, active_tasks, adding>>

\* *active += 1
WorkerCount(w) ==
    /\ workers[w].pc = "count"
    /\ active_tasks' = active_tasks + 1
    /\ workers' = [workers EXCEPT ![w].pc = "progress"]
    /\ UNCHANGED <<inputVars, disk, walkVars, loop, needs_redraw, quit, app, items_per_page, sizeVars,
                   delChan, threads, requests, work_queue, adding, started>>

\* a worker that goes on to the removal without the Progress message
WorkerProgressSkipped(w) ==
    /\ workers[w].pc = "progress"
    /\ workers' = [workers EXCEPT ![w].pc = "remove"]
    /\ UNCHANGED <<inputVars, disk, walkVars, loop, needs_redraw, quit, app, items_per_page, sizeVars,
                   delChan, threads, requests, work_queue, active_tasks, adding, started>>

\* sender.send(Progress { index, status: Deleting })
WorkerProgress(w) ==
    /\ workers[w].pc = "progress"
    /\ SendDeletion(Progress(workers[w].task.index))
    /\ workers' = [workers EXCEPT ![w].pc = "remove"]
    /\ started' = Append(started, Event("announced", workers[w].task))
    /\ UNCHANGED <<inputVars, disk, walkVars, loop, needs_redraw, quit, app, items_per_page, sizeVars,
                   threads, requests, work_queue, active_tasks, adding>>

\* remove_dir_all(&task.path) begins, or fails because the path is not there
WorkerRemoveBegin(w) ==
    /\ workers[w].pc = "remove"
    /\ workers' = [workers EXCEPT ![w] =
           IF remove_begins(workers[w].task.path)
           THEN [pc |-> "removing", task |-> workers[w].task]
           ELSE [pc |-> "complete", task |-> workers[w].task, success |-> FALSE]]
    /\ UNCHANGED <<inputVars, disk, walkVars, loop, needs_redraw, quit, app, items_per_page, sizeVars,
                   delChan, threads, requests, work_queue, active_tasks, adding, started>>

\* remove_dir_all returns
WorkerRemoveEnd(w) ==
    /\ workers[w].pc = "removing"
    /\ disk' = disk_after_remove(workers[w].task.path)
    /\ workers' = [workers EXCEPT ![w] =
           [pc |-> "complete", task |-> workers[w].task,
            success |-> remove_succeeds(workers[w].task.path)]]
    /\ UNCHANGED <<inputVars, walkVars, loop, needs_redraw, quit, app, items_per_page, sizeVars,
                   delChan, threads, requests, work_queue, active_tasks, adding, started>>

\* sender.send(Complete { results: vec![..] })
WorkerComplete(w) ==
    /\ workers[w].pc = "complete"
    /\ SendDeletion(Complete(<<DeletionResult(workers[w].task.index, workers[w].task.path,
                                               workers[w].success)>>))
    /\ workers' = [workers EXCEPT ![w] = [pc |-> "uncount", task |-> workers[w].task]]
    /\ UNCHANGED <<inputVars, disk, walkVars, loop, needs_redraw, quit, app, items_per_page, sizeVars,
                   threads, requests, work_queue, active_tasks, adding, started>>

\* *active -= 1, and round the loop
WorkerUncount(w) ==
    /\ workers[w].pc = "uncount"
    /\ active_tasks' = active_tasks - 1
    /\ workers' = [workers EXCEPT ![w] = Idle]
    /\ UNCHANGED <<inputVars, disk, walkVars, loop, needs_redraw, quit, app, items_per_page, sizeVars,
                   delChan, threads, requests, work_queue, adding, started>>

Worker ==
    \E w \in 1..Len(workers) :
        \/ WorkerPop(w)
        \/ WorkerCount(w)
        \/ WorkerProgress(w)
        \/ WorkerRemoveBegin(w)
        \/ WorkerRemoveEnd(w)
        \/ WorkerComplete(w)
        \/ WorkerUncount(w)

----------------------------------------------------------------------------
(* Calls of the App's methods by a client that holds the App itself, as the *)
(* tests do: no main loop runs, loop = "api"                                *)

\* the greatest items_per_page: the frames have 1..MaxPageSize rows for the list
MaxPageSize == 3

CanCall == loop = "api" /\ adding = <<>>

\* a call that changes the App alone
Call(a) ==
    /\ CanCall
    /\ app' = a
    /\ UNCHANGED <<inputVars, disk, walkVars, loop, needs_redraw, quit, items_per_page, sizeVars,
                   delChan, threads, requests, poolVars>>

\* App::delete_selected_directories up to its add_task loop
CallDeleteSelectedDirectories ==
    /\ CanCall
    /\ requests > 0
    /\ requests' = requests - 1
    /\ LET indices == selected_indices(app)
           n == Enqueued(started)
       IN IF indices = <<>>
          THEN UNCHANGED <<app, adding>>
          ELSE /\ app' = [(IF app.deletion_thread_pool THEN app
                           ELSE init_deletion_channel(app))
                             EXCEPT !.deletion_progress = TRUE]
               /\ adding' = [k \in 1..Len(indices) |-> DeletionTask(app, indices[k], n + k)]
    /\ UNCHANGED <<inputVars, disk, walkVars, loop, needs_redraw, quit, items_per_page, sizeVars,
                   delChan, threads, work_queue, active_tasks, workers, started>>

\* App::process_deletion_messages
CallProcessDeletionMessages ==
    /\ CanCall
    /\ delChan # <<>>
    /\ app' = process_deletion_messages(app, delChan)
    /\ delChan' = <<>>
    /\ UNCHANGED <<inputVars, disk, walkVars, loop, needs_redraw, quit, items_per_page, sizeVars,
                   threads, requests, poolVars>>

\* App::start_delete_current_directory
CallStartDeleteCurrent ==
    /\ CanCall
    /\ requests > 0
    /\ requests' = requests - 1
    /\ start_delete_current_directory
    /\ UNCHANGED <<inputVars, disk, walkVars, loop, needs_redraw, quit, items_per_page, sizeVars,
                   poolVars>>

\* App::start_delete_selected_directories
CallStartDeleteSelected ==
    /\ CanCall
    /\ requests > 0
    /\ requests' = requests - 1
    /\ start_delete_selected_directories
    /\ UNCHANGED <<inputVars, disk, walkVars, loop, needs_redraw, quit, items_per_page, sizeVars,
                   poolVars>>

\* App::delete_current_directory: the removal is made by the caller
CallDeleteCurrentDirectory ==
    /\ CanCall
    /\ requests > 0
    /\ requests' = requests - 1
    /\ IF has_selected_directory(app)
       THEN LET path == app.directories[app.selected + 1].path
                ok == remove_begins(path) /\ remove_succeeds(path)
            IN /\ disk' = IF ok THEN disk_after_remove(path) ELSE disk
               /\ app' = [app EXCEPT
                      !.directories[app.selected + 1].deletion_status =
                          IF ok THEN "Deleted" ELSE "Error",
                      !.deletion_progress = FALSE]
       ELSE UNCHANGED <<app, disk>>
    /\ UNCHANGED <<inputVars, walkVars, loop, needs_redraw, quit, items_per_page, sizeVars,
                   delChan, threads, poolVars>>

----------------------------------------------------------------------------
(* The size jobs the main loop spawns on the rayon pool *)

\* calculate_directory_size_jwalk(path).unwrap_or(0)
calculated_size(path) == IF path \in disk.present THEN disk.size[path] ELSE 0

\* the job computes the sizes of its paths
SizeCompute(j) ==
    /\ sizeJobs[j].results = <<>>
    /\ LET paths == sizeJobs[j].paths
           results == [k \in 1..Len(paths) |->
                          [path |-> paths[k], size |-> calculated_size(paths[k])]]
       IN /\ sizeJobs' = [sizeJobs EXCEPT ![j].results = results]
          /\ computed' = [q \in DOMAIN computed \cup {paths[k] : k \in 1..Len(paths)} |->
                             IF \E k \in 1..Len(paths) : paths[k] = q
                             THEN calculated_size(q) ELSE computed[q]]
    /\ UNCHANGED <<inputVars, disk, walkVars, loop, needs_redraw, quit, app, items_per_page,
                   sizeChan, dirCache, delChan, threads, requests, poolVars>>

\* `for (path, size, formatted_size) in results { let _ = size_tx_clone.send(..); }`:
\* the loop that ends the job, which nothing the job does comes between
SizeSend(j) ==
    /\ sizeJobs[j].results # <<>>
    /\ sizeChan' = IF quit THEN sizeChan ELSE sizeChan \o sizeJobs[j].results
    /\ sizeJobs' = SubSeq(sizeJobs, 1, j - 1) \o SubSeq(sizeJobs, j + 1, Len(sizeJobs))
    /\ UNCHANGED <<inputVars, disk, walkVars, loop, needs_redraw, quit, app, items_per_page,
                   dirCache, computed, delChan, threads, requests, poolVars>>

SizeWorker ==
    \E j \in 1..Len(sizeJobs) :
        \/ SizeCompute(j)
        \/ SizeSend(j)

----------------------------------------------------------------------------
(* Initial states *)

RECURSIVE MatchPaths(_, _)
\* the paths of the directories of a listing that are named as the pattern is
MatchPaths(prefix, listing) ==
    UNION { LET e == listing[i]
                path == Append(prefix, e.name)
            IN (IF e.kind = "dir" /\ e.name = NM THEN {path} ELSE {})
               \cup MatchPaths(path, e.sub)
          : i \in 1..Len(listing) }

\* display_directories_tui up to its loop: an empty App that is Discovering
TuiApp == set_discovery_status(new_with_ignore(<<>>), "Discovering")

\* everything but the inputs of the walk, the disk, the App and the number of
\* delete requests
InitIdle ==
    /\ walk = [pc |-> "init", stack |-> <<>>, result |-> "none"]
    /\ discChan = <<>>
    /\ sendLog = <<>>
    /\ quit = FALSE
    /\ items_per_page = 1
    /\ sizeChan = <<>>
    /\ sizeJobs = <<>>
    /\ dirCache = <<>>
    /\ computed = <<>>
    /\ delChan = <<>>
    /\ work_queue = <<>>
    /\ active_tasks = 0
    /\ workers = [w \in 1..PoolWorkers |-> Idle]
    /\ threads = <<>>
    /\ adding = <<>>
    /\ started = <<>>

\* everything but the inputs of the walk, the disk and the App
InitRest ==
    /\ InitIdle
    /\ requests = MaxRequests

\* a walk of any tree, with any pattern and ignore set, in the terminal UI
InitWalk ==
    /\ fsRoot \in Roots
    /\ pattern \in Patterns
    /\ ignore_patterns \in IgnoreSets
    /\ disk = [size |-> [q \in MatchPaths(<<>>, fsRoot.sub) |-> 1024 * Len(q)],
               protected |-> {},
               present |-> MatchPaths(<<>>, fsRoot.sub)]
    /\ heights = {2}
    /\ loop = "tick"
    /\ needs_redraw = TRUE
    /\ app = TuiApp
    /\ InitRest

NextWalk ==
    \/ WalkStart
    \/ WalkEntry
    \/ WalkReturn
    \/ WalkComplete
    \/ Tick
    \/ NoKey
    \/ KeyQuit

SpecWalk == InitWalk /\ [][NextWalk]_vars

----------------------------------------------------------------------------
(* The terminal UI over a tree of known matches, with the keys that move the *)
(* cursor and a terminal whose height changes between frames                 *)

\* the matches of the tree the cursor moves over
NavMatches == 3

RECURSIVE Chain(_)
\* a tree with n matches: one at each level, beside the directory that holds
\* the next level
Chain(n) ==
    IF n = 1 THEN <<DirEntry(NM, TRUE, <<>>)>>
    ELSE <<DirEntry(NM, TRUE, <<>>), DirEntry(TNM, TRUE, Chain(n - 1))>>

\* the terminal UI started on a chain of n matches
InitChain(n) ==
    /\ fsRoot = [kind |-> "dir", readable |-> TRUE, sub |-> Chain(n)]
    /\ pattern = NM
    /\ ignore_patterns = <<>>
    /\ disk = [size |-> [q \in MatchPaths(<<>>, fsRoot.sub) |-> 1024 * Len(q)],
               protected |-> {},
               present |-> MatchPaths(<<>>, fsRoot.sub)]
    /\ loop = "tick"
    /\ needs_redraw = TRUE
    /\ app = TuiApp
    /\ InitRest

InitNav ==
    /\ heights = 1..MaxPageSize
    /\ InitChain(NavMatches)

NextNav ==
    \/ WalkStart
    \/ WalkEntry
    \/ WalkReturn
    \/ WalkComplete
    \/ Tick
    \/ NoKey
    \/ KeyQuit
    \/ KeyNavigate
    \/ SizeWorker

SpecNav == InitNav /\ [][NextNav]_vars

----------------------------------------------------------------------------
(* The terminal UI over a tree of so many matches that sizes are calculated  *)
(* while directories are still being admitted                                *)

\* the matches of the tree: ten are on the list when the first size is asked for
SizeMatches == 11

InitSize ==
    /\ heights = {2}
    /\ InitChain(SizeMatches)

NextSize ==
    \/ WalkStart
    \/ WalkEntry
    \/ WalkReturn
    \/ WalkComplete
    \/ Tick
    \/ NoKey
    \/ KeyQuit
    \/ SizeWorker

SpecSize == InitSize /\ [][NextSize]_vars

----------------------------------------------------------------------------
(* The terminal UI with the keys that select and delete                      *)

\* the matches of the tree whose directories are deleted
LedgerMatches == 1

InitLedger ==
    /\ heights = {2}
    /\ InitChain(LedgerMatches)

NextLedger ==
    \/ WalkStart
    \/ WalkEntry
    \/ WalkReturn
    \/ WalkComplete
    \/ Tick
    \/ NoKey
    \/ KeyQuit
    \/ KeySelect
    \/ KeyDeleteCurrent
    \/ KeyDeleteSelected
    \/ SizeWorker
    \/ DeletionThread

SpecLedger == InitLedger /\ [][NextLedger]_vars

----------------------------------------------------------------------------
(* A client of App::delete_selected_directories: an App made with entries of *)
(* known sizes, all selected, and a pool of max_workers workers              *)

\* the entries of the App the client makes
PoolEntries == 2

\* one size of each DeletionPriority
PoolSizes == {1024, 1048577, 104857601, 1073741825}

\* the numbers of workers the pool is made with: DeletionThreadPool::new(tx, n)
WorkerCounts == {1, PoolWorkers}

\* the path of the match at level k of a chain
ChainPath(k) == [i \in 1..k |-> IF i = k THEN NM ELSE TNM]

\* a DirectoryInfo whose size is known and whose selected flag is set
SizedEntry(path, size) ==
    [path |-> path, size |-> size, selected |-> TRUE,
     deletion_status |-> "Normal", calculation_status |-> "Completed"]

\* App::new on the entries, then a pool installed as init_deletion_channel
\* installs it; the directories of the Huge class are ones remove_dir_all fails
\* on; the client calls delete_selected_directories once
InitPool ==
    /\ \E sizes \in [1..PoolEntries -> PoolSizes] :
          /\ app = init_deletion_channel(new_with_ignore(
                       [k \in 1..PoolEntries |-> SizedEntry(ChainPath(k), sizes[k])]))
          /\ disk = [size |-> [q \in {ChainPath(k) : k \in 1..PoolEntries} |->
                                  sizes[Len(q)]],
                     protected |-> {ChainPath(k) : k \in {j \in 1..PoolEntries :
                                        get_deletion_priority(sizes[j]) = Huge}},
                     present |-> {ChainPath(k) : k \in 1..PoolEntries}]
    /\ fsRoot = [kind |-> "dir", readable |-> TRUE, sub |-> Chain(PoolEntries)]
    /\ pattern = NM
    /\ ignore_patterns = <<>>
    /\ heights = {1}
    /\ loop = "api"
    /\ needs_redraw = TRUE
    /\ walk = [pc |-> "returned", stack |-> <<>>, result |-> "ok"]
    /\ discChan = <<>>
    /\ sendLog = <<>>
    /\ quit = FALSE
    /\ items_per_page = 1
    /\ sizeChan = <<>>
    /\ sizeJobs = <<>>
    /\ dirCache = <<>>
    /\ computed = <<>>
    /\ delChan = <<>>
    /\ work_queue = <<>>
    /\ active_tasks = 0
    /\ \E n \in WorkerCounts : workers = [w \in 1..n |-> Idle]
    /\ threads = <<>>
    /\ adding = <<>>
    /\ started = <<>>
    /\ requests = 1

NextPool ==
    \/ CallDeleteSelectedDirectories
    \/ AddTask
    \/ Worker
    \/ CallProcessDeletionMessages

SpecPool == InitPool /\ [][NextPool]_vars

----------------------------------------------------------------------------
(* A client of the App's admission, navigation and selection methods: an    *)
(* App made empty, with the batch_size the client sets                      *)

\* the directories the client adds
MaxAdds == 4

\* the greatest batch_size the client sets
MaxBatch == 3

\* the page sizes the client passes
PageSizes == 1..MaxPageSize

\* App::add_discovered_directory with the next path
CallAddDiscoveredDirectory ==
    /\ app.total_discovered < MaxAdds
    /\ Call(add_discovered_directory(app, ChainPath(app.total_discovered + 1)))

\* App::set_discovery_status
CallSetDiscoveryStatus ==
    \E status \in {"Discovering", "Complete"} : Call(set_discovery_status(app, status))

\* App::next, previous, select_first, select_last, next_page, previous_page
CallNavigate ==
    \E key \in NavKeys : \E ipp \in PageSizes : Call(HandleKey(app, key, ipp))

\* App::go_to_page
CallGoToPage ==
    \E page \in 0..MaxAdds : \E ipp \in PageSizes : Call(go_to_page(app, page, ipp))

\* App::toggle_current_selection, select_all, deselect_all, toggle_selection_mode
CallSelect ==
    \E key \in SelectKeys : Call(HandleKey(app, key, 1))

\* App::select_current, deselect_current
CallSelectCurrent ==
    \/ Call(select_current(app))
    \/ Call(deselect_current(app))

\* App::new with no entries, then app.batch_size = b
InitApi ==
    /\ \E b \in 1..MaxBatch : app = [new_with_ignore(<<>>) EXCEPT !.batch_size = b]
    /\ fsRoot = [kind |-> "dir", readable |-> TRUE, sub |-> Chain(MaxAdds)]
    /\ pattern = NM
    /\ ignore_patterns = <<>>
    /\ disk = [size |-> [q \in MatchPaths(<<>>, fsRoot.sub) |-> 1024 * Len(q)],
               protected |-> {},
               present |-> MatchPaths(<<>>, fsRoot.sub)]
    /\ heights = PageSizes
    /\ loop = "api"
    /\ needs_redraw = TRUE
    /\ InitRest

NextApi ==
    \/ CallAddDiscoveredDirectory
    \/ CallSetDiscoveryStatus
    \/ CallNavigate
    \/ CallGoToPage
    \/ CallSelect
    \/ CallSelectCurrent

SpecApi == InitApi /\ [][NextApi]_vars

----------------------------------------------------------------------------
(* A client of the App's deletion methods: an App made with entries of      *)
(* known sizes, some of them directories remove_dir_all fails on            *)

\* the entries of the App the client makes
DelEntries == 2

\* App::new on the entries; any of the directories may be one that cannot be
\* removed
InitDel ==
    /\ app = new_with_ignore([k \in 1..DelEntries |-> SizedEntry(ChainPath(k), 1024 * k)])
    /\ fsRoot = [kind |-> "dir", readable |-> TRUE, sub |-> Chain(DelEntries)]
    /\ pattern = NM
    /\ ignore_patterns = <<>>
    /\ \E locked \in SUBSET {ChainPath(k) : k \in 1..DelEntries} :
           disk = [size |-> [q \in {ChainPath(k) : k \in 1..DelEntries} |-> 1024 * Len(q)],
                   protected |-> locked,
                   present |-> {ChainPath(k) : k \in 1..DelEntries}]
    /\ heights = {1}
    /\ loop = "api"
    /\ needs_redraw = TRUE
    /\ InitRest

NextDel ==
    \/ CallSelect
    \/ CallStartDeleteCurrent
    \/ CallStartDeleteSelected
    \/ CallDeleteCurrentDirectory
    \/ DeletionThread
    \/ CallProcessDeletionMessages

SpecDel == InitDel /\ [][NextDel]_vars

----------------------------------------------------------------------------
(* A client that asks for the deletion of the entry under the cursor once    *)
(* more than the pool has workers, without waiting for the removals          *)

\* the delete requests the client makes
BurstRequests == PoolWorkers + 1

\* App::new on one entry of known size
InitBurst ==
    /\ app = new_with_ignore(<<SizedEntry(ChainPath(1), 1024)>>)
    /\ fsRoot = [kind |-> "dir", readable |-> TRUE, sub |-> Chain(1)]
    /\ pattern = NM
    /\ ignore_patterns = <<>>
    /\ \E locked \in SUBSET {ChainPath(1)} :
           disk = [size |-> [q \in {ChainPath(1)} |-> 1024],
                   protected |-> locked,
                   present |-> {ChainPath(1)}]
    /\ heights = {1}
    /\ loop = "api"
    /\ needs_redraw = TRUE
    /\ InitIdle
    /\ requests = BurstRequests

NextBurst ==
    \/ CallStartDeleteCurrent
    \/ DeletionThread
    \/ CallProcessDeletionMessages

SpecBurst == InitBurst /\ [][NextBurst]_vars

----------------------------------------------------------------------------
(* A client of App::delete_selected_directories with the four entries of the *)
(* priority scenario, all selected, and a pool of one worker                 *)

\* 2 GiB less one byte (the greatest size the checker's integers hold, of the
\* class of 2 GiB), 500 KiB, 50 MiB, 500 MiB
E5Sizes == <<2147483647, 500 * 1024, 50 * 1024 * 1024, 500 * 1024 * 1024>>

\* App::new on the entries, then DeletionThreadPool::new(tx, 1) installed
InitE5 ==
    /\ app = init_deletion_channel(new_with_ignore(
                 [k \in 1..Len(E5Sizes) |-> SizedEntry(ChainPath(k), E5Sizes[k])]))
    /\ disk = [size |-> [q \in {ChainPath(k) : k \in 1..Len(E5Sizes)} |-> E5Sizes[Len(q)]],
               protected |-> {},
               present |-> {ChainPath(k) : k \in 1..Len(E5Sizes)}]
    /\ fsRoot = [kind |-> "dir", readable |-> TRUE, sub |-> Chain(Len(E5Sizes))]
    /\ pattern = NM
    /\ ignore_patterns = <<>>
    /\ heights = {1}
    /\ loop = "api"
    /\ needs_redraw = TRUE
    /\ walk = [pc |-> "returned", stack |-> <<>>, result |-> "ok"]
    /\ discChan = <<>>
    /\ sendLog = <<>>
    /\ quit = FALSE
    /\ items_per_page = 1
    /\ sizeChan = <<>>
    /\ sizeJobs = <<>>
    /\ dirCache = <<>>
    /\ computed = <<>>
    /\ delChan = <<>>
    /\ work_queue = <<>>
    /\ active_tasks = 0
    /\ workers = <<Idle>>
    /\ threads = <<>>
    /\ adding = <<>>
    /\ started = <<>>
    /\ requests = 1

NextE5 ==
    \/ CallDeleteSelectedDirectories
    \/ AddTask
    \/ Worker

SpecE5 == InitE5 /\ [][NextE5]_vars

----------------------------------------------------------------------------
(* The terminal UI with every key event the match tells apart               *)

NextKeys ==
    \/ WalkStart
    \/ WalkEntry
    \/ WalkReturn
    \/ WalkComplete
    \/ Tick
    \/ KeyEvents
    \/ DeletionThread

SpecKeys == InitLedger /\ [][NextKeys]_vars

----------------------------------------------------------------------------
(* A client that deletes three selected entries of sizes 100, 200 and 300    *)
(* with one call of start_delete_selected_directories                        *)

\* the sizes of the entries
BatchSizes == <<100, 200, 300>>

\* App::new on the entries, all selected; any of the directories may be one
\* that cannot be removed
InitBatch ==
    /\ app = new_with_ignore(
                 [k \in 1..Len(BatchSizes) |-> SizedEntry(ChainPath(k), BatchSizes[k])])
    /\ fsRoot = [kind |-> "dir", readable |-> TRUE, sub |-> Chain(Len(BatchSizes))]
    /\ pattern = NM
    /\ ignore_patterns = <<>>
    /\ \E locked \in SUBSET {ChainPath(k) : k \in 1..Len(BatchSizes)} :
           disk = [size |-> [q \in {ChainPath(k) : k \in 1..Len(BatchSizes)} |->
                                BatchSizes[Len(q)]],
                   protected |-> locked,
                   present |-> {ChainPath(k) : k \in 1..Len(BatchSizes)}]
    /\ heights = {1}
    /\ loop = "api"
    /\ needs_redraw = TRUE
    /\ InitIdle
    /\ requests = 1

NextBatch ==
    \/ CallSelect
    \/ CallStartDeleteSelected
    \/ DeletionThread
    \/ CallProcessDeletionMessages

SpecBatch == InitBatch /\ [][NextBatch]_vars

----------------------------------------------------------------------------
(* The terminal UI a few iterations into a run in which the threads were     *)
(* faster than the main loop: the discovery thread has walked its tree, the  *)
(* size jobs that were spawned have sent their results, and the channels     *)
(* hold more than one iteration takes                                        *)

\* the DirectoryFound messages the main loop has taken
DrainAdmitted == 10

\* the greatest number of DirectoryFound messages that wait on the channel
DrainMatches == 22

\* the greatest number of size jobs that were spawned
DrainJobs == 2

RECURSIVE Dispatched(_, _)
\* the App and the jobs after k more iterations spawned their size jobs
Dispatched(a, k) ==
    IF k = 0 THEN [app |-> a, jobs |-> <<>>]
    ELSE LET before == Dispatched(a, k - 1)
             paths == paths_to_calculate(before.app)
         IN [app |-> mark_calculating(before.app, paths),
             jobs |-> IF paths = <<>> THEN before.jobs ELSE Append(before.jobs, paths)]

RECURSIVE ResultsOf(_)
\* what the jobs sent, job after job
ResultsOf(jobs) ==
    IF jobs = <<>> THEN <<>>
    ELSE [k \in 1..Len(Head(jobs)) |->
              [path |-> Head(jobs)[k], size |-> 1024 * Len(Head(jobs)[k])]]
             \o ResultsOf(Tail(jobs))

\* the walk of a chain is over, the main loop has taken the first
\* DrainAdmitted messages and spawned size jobs, which are over as well; the
\* loop has drawn its frame and polls for a key
InitDrain ==
    /\ heights = {2}
    /\ pattern = NM
    /\ ignore_patterns = <<>>
    /\ \E n \in 0..DrainMatches : \E j \in 0..DrainJobs :
          LET sent == [k \in 1..(DrainAdmitted + n + 1) |->
                          IF k <= DrainAdmitted + n THEN Found(ChainPath(k))
                          ELSE DiscoveryComplete]
              taken == DrainDiscovery(TuiApp, SubSeq(sent, 1, DrainAdmitted), 0).app
              later == Dispatched(taken, j)
              results == ResultsOf(later.jobs)
          IN /\ fsRoot = [kind |-> "dir", readable |-> TRUE,
                          sub |-> Chain(DrainAdmitted + n)]
             /\ sendLog = [k \in 1..Len(sent) |-> [msg |-> sent[k], ok |-> TRUE]]
             /\ discChan = SubSeq(sent, DrainAdmitted + 1, Len(sent))
             /\ app = later.app
             /\ sizeChan = results
             /\ computed = [q \in {results[k].path : k \in 1..Len(results)} |->
                               1024 * Len(q)]
    /\ disk = [size |-> [q \in MatchPaths(<<>>, fsRoot.sub) |-> 1024 * Len(q)],
               protected |-> {},
               present |-> MatchPaths(<<>>, fsRoot.sub)]
    /\ walk = WalkReturned("ok")
    /\ loop = "input"
    /\ needs_redraw = TRUE
    /\ quit = FALSE
    /\ items_per_page = 2
    /\ sizeJobs = <<>>
    /\ dirCache = <<>>
    /\ delChan = <<>>
    /\ work_queue = <<>>
    /\ active_tasks = 0
    /\ workers = [w \in 1..PoolWorkers |-> Idle]
    /\ threads = <<>>
    /\ adding = <<>>
    /\ started = <<>>
    /\ requests = 1

\* the size jobs the iterations spawn from here on are not yet run
NextDrain ==
    \/ Tick
    \/ NoKey
    \/ KeyDeleteCurrent
    \/ DeletionThread

SpecDrain == InitDrain /\ [][NextDrain]_vars

----------------------------------------------------------------------------
(* A client that adds directories while deletions it has asked for are in    *)
(* flight                                                                    *)

\* the batch_size the client sets
AdmitBatch == 2

InitAdmit == InitApi /\ app.batch_size = AdmitBatch

NextAdmit ==
    \/ CallAddDiscoveredDirectory
    \/ Call(select_all(app))
    \/ Call(next(app, 1))
    \/ CallStartDeleteCurrent
    \/ CallStartDeleteSelected
    \/ DeletionThread
    \/ CallProcessDeletionMessages

SpecAdmit == InitAdmit /\ [][NextAdmit]_vars

----------------------------------------------------------------------------
(* The terminal UI whose main loop keeps ticking: no key is pressed, every   *)
(* iteration comes to its end and is followed by the next, and the discovery *)
(* thread, which the operating system schedules, takes its steps             *)

WalkThread ==
    \/ WalkStart
    \/ WalkEntry
    \/ WalkReturn
    \/ WalkComplete

NextWalkLive ==
    \/ WalkThread
    \/ Tick
    \/ NoKey

FairWalkLive ==
    /\ WF_vars(WalkThread)
    /\ WF_vars(Tick)
    /\ WF_vars(NoKey)

SpecWalkLive == InitWalk /\ [][NextWalkLive]_vars /\ FairWalkLive

----------------------------------------------------------------------------
(* The terminal UI over a tree whose matches fill one batch, with a main     *)
(* loop that keeps ticking and size jobs that the thread pool runs           *)

\* the matches of the tree: one batch of App::new's batch_size
LiveMatches == 5

RECURSIVE BrokenChain(_)
\* a chain of n matches whose innermost directory cannot be read
BrokenChain(n) ==
    IF n = 1 THEN <<DirEntry(NM, TRUE, <<>>), DirEntry(TNM, FALSE, <<>>)>>
    ELSE <<DirEntry(NM, TRUE, <<>>), DirEntry(TNM, TRUE, BrokenChain(n - 1))>>

InitSizeLive ==
    /\ fsRoot \in {[kind |-> "dir", readable |-> TRUE, sub |-> Chain(LiveMatches)],
                   [kind |-> "dir", readable |-> TRUE, sub |-> BrokenChain(LiveMatches)]}
    /\ pattern = NM
    /\ ignore_patterns = <<>>
    /\ disk = [size |-> [q \in MatchPaths(<<>>, fsRoot.sub) |-> 1024 * Len(q)],
               protected |-> {},
               present |-> MatchPaths(<<>>, fsRoot.sub)]
    /\ heights = {2}
    /\ loop = "tick"
    /\ needs_redraw = TRUE
    /\ app = TuiApp
    /\ InitRest

NextSizeLive ==
    \/ WalkThread
    \/ Tick
    \/ NoKey
    \/ SizeWorker

\* an iteration of the main loop blocks nowhere and comes to its end: Tick is
\* the step that is enabled when loop = "tick", and the one that changes it
FairSizeLive ==
    /\ WF_vars(WalkThread)
    /\ []<>(loop # "tick")
    /\ WF_vars(NoKey)
    /\ WF_vars(SizeWorker)

SpecSizeLive == InitSizeLive /\ [][NextSizeLive]_vars /\ FairSizeLive

----------------------------------------------------------------------------
(* A client of the App's admission methods that sets the public batch_size   *)
(* field to any value, 0 included; the `while` loop of                       *)
(* process_remaining_pending is taken one iteration at a time, on the        *)
(* client's thread: loop = "flush" while the call has not returned           *)

\* App::process_remaining_pending is called
CallProcessRemainingPending ==
    /\ CanCall
    /\ loop' = "flush"
    /\ UNCHANGED <<inputVars, disk, walkVars, needs_redraw, quit, app, items_per_page, sizeVars,
                   delChan, threads, requests, poolVars>>

\* App::set_discovery_status(Complete) up to its call of process_remaining_pending
CallSetDiscoveryComplete ==
    /\ CanCall
    /\ app' = [app EXCEPT !.discovery_status = "Complete"]
    /\ loop' = "flush"
    /\ UNCHANGED <<inputVars, disk, walkVars, needs_redraw, quit, items_per_page, sizeVars,
                   delChan, threads, requests, poolVars>>

\* `while !self.pending_directories.is_empty() { self.process_pending_batch(); }`:
\* the test, and the body or the return
FlushIteration ==
    /\ loop = "flush"
    /\ IF app.pending_directories = <<>>
       THEN loop' = "api" /\ UNCHANGED app
       ELSE app' = process_pending_batch(app) /\ UNCHANGED loop
    /\ UNCHANGED <<inputVars, disk, walkVars, needs_redraw, quit, items_per_page, sizeVars,
                   delChan, threads, requests, poolVars>>

\* App::new with no entries, then app.batch_size = b, for any b from 0
InitFlush ==
    /\ \E b \in 0..MaxBatch : app = [new_with_ignore(<<>>) EXCEPT !.batch_size = b]
    /\ fsRoot = [kind |-> "dir", readable |-> TRUE, sub |-> Chain(MaxAdds)]
    /\ pattern = NM
    /\ ignore_patterns = <<>>
    /\ disk = [size |-> [q \in MatchPaths(<<>>, fsRoot.sub) |-> 1024 * Len(q)],
               protected |-> {},
               present |-> MatchPaths(<<>>, fsRoot.sub)]
    /\ heights = PageSizes
    /\ loop = "api"
    /\ needs_redraw = TRUE
    /\ InitRest

NextFlush ==
    \/ CallAddDiscoveredDirectory
    \/ Call(set_discovery_status(app, "Discovering"))
    \/ CallProcessRemainingPending
    \/ CallSetDiscoveryComplete
    \/ FlushIteration

\* the client's thread runs: a call that was made goes on
FairFlush == WF_vars(FlushIteration)

SpecFlush == InitFlush /\ [][NextFlush]_vars /\ FairFlush

----------------------------------------------------------------------------
(* The discoverer's claims, under SpecWalk *)

\* the paths of the DirectoryFound messages the discoverer sent
FoundSent == {sendLog[i].msg.path : i \in {k \in 1..Len(sendLog) :
                                              sendLog[k].msg.type = "DirectoryFound"}}

\* the sends of a terminal message, by their place in the log
TerminalSends == {i \in 1..Len(sendLog) : sendLog[i].msg.type # "DirectoryFound"}

StrictAncestor(p, q) == Len(p) < Len(q) /\ SubSeq(q, 1, Len(p)) = p

\* some regex of the ignore set matches the name
Ignored(name) == \E i \in 1..Len(ignore_patterns) : is_match(ignore_patterns[i], name)

\* the inputs pass the validation and the root can be read
RootWalked == pattern # <<>> /\ fsRoot.kind = "dir" /\ fsRoot.readable

RECURSIVE ReadableMatches(_, _)
\* the matches of a listing that lie in no ignored, matched or unreadable directory
ReadableMatches(prefix, listing) ==
    UNION { LET e == listing[i]
                path == Append(prefix, e.name)
            IN IF e.kind # "dir" \/ Ignored(e.name) THEN {}
               ELSE IF e.name = pattern THEN {path}
               ELSE IF e.readable THEN ReadableMatches(path, e.sub)
               ELSE {}
          : i \in 1..Len(listing) }

RECURSIVE DirPaths(_, _)
\* the paths of all directories of a listing
DirPaths(prefix, listing) ==
    UNION { LET e == listing[i]
                path == Append(prefix, e.name)
            IN IF e.kind = "dir" THEN {path} \cup DirPaths(path, e.sub) ELSE {}
          : i \in 1..Len(listing) }

(* C3: nested-match suppression. Among the paths sent as DirectoryFound no
   path is a strict ancestor of another. *)
C3_NestedMatchSuppression ==
    \A p \in FoundSent : \A q \in FoundSent : ~StrictAncestor(p, q)

\* a walk that ended Ok reported a match that has another match below it
C3_Witness ==
    /\ walk.result = "ok"
    /\ \E p \in FoundSent : \E q \in MatchPaths(<<>>, fsRoot.sub) : StrictAncestor(p, q)

(* C7: terminal message. When stream_directories_with_ignore has returned Ok
   it has made exactly one send of a terminal message, and that send is its
   last: no DirectoryFound follows it. *)
C7_TerminalMessage ==
    walk.result = "ok" =>
        /\ Cardinality(TerminalSends) = 1
        /\ sendLog[Len(sendLog)].msg.type = "DiscoveryComplete"

\* a walk that ended Ok after a DirectoryFound was delivered
C7_Witness ==
    /\ walk.result = "ok"
    /\ \E i \in 1..Len(sendLog) : sendLog[i].msg.type = "DirectoryFound" /\ sendLog[i].ok

(* C8: root-level discovery error reporting. When the walk has failed with an
   error that reached the root, exactly one DiscoveryError was sent on the
   discovery channel, and the App's discovery_status is Error once the main
   loop has taken it. *)
C8_RootErrorReported ==
    (walk.result = "err" /\ pattern # <<>> /\ fsRoot.kind = "dir") =>
        /\ Cardinality({i \in 1..Len(sendLog) :
                            sendLog[i].msg.type = "DiscoveryError"}) = 1
        /\ (discChan = <<>> /\ ~quit) => app.discovery_status = "Error"

(* C9: subtree errors are skipped. When the root can be read, the walk ends
   Ok with DiscoveryComplete, and every match outside the unreadable (and the
   ignored and matched) directories was sent as DirectoryFound. *)
C9_SubtreeErrorsSkipped ==
    (walk.pc = "returned" /\ RootWalked) =>
        /\ walk.result = "ok"
        /\ ReadableMatches(<<>>, fsRoot.sub) \subseteq FoundSent
        /\ \E i \in 1..Len(sendLog) : sendLog[i].msg.type = "DiscoveryComplete"

(* C10: ignore coverage. No path sent as DirectoryFound has an ignored name
   in it, its own basename included, and the walk never reads a directory
   below an ignored one. *)
C10_IgnoreCoverage ==
    /\ \A p \in FoundSent : \A k \in 1..Len(p) : ~Ignored(p[k])
    /\ \A f \in 1..Len(walk.stack) :
           \A k \in 1..Len(walk.stack[f].path) : ~Ignored(walk.stack[f].path[k])

\* a walk that ended Ok over a tree with an ignored directory that is named as
\* the pattern is, and with a match that is not ignored
C10_Witness ==
    /\ walk.result = "ok"
    /\ \E q \in MatchPaths(<<>>, fsRoot.sub) : Ignored(q[Len(q)])
    /\ \E q \in DirPaths(<<>>, fsRoot.sub) : Len(q) > 1 /\ Ignored(q[1])

----------------------------------------------------------------------------
(* The cursor's claims, under SpecNav *)

(* C4: pagination invariant. Every step that is a navigation command (next,
   previous, next_page, previous_page, select_first, select_last) leaves
   current_page equal to selected / items_per_page, for the items_per_page of
   the frame the key was read in. *)
C4_PaginationInvariant ==
    [][KeyNavigate => app'.current_page = app'.selected \div items_per_page]_vars

(* C5: cursor bound. In every reachable state selected < len(directories)
   when the list is not empty, and selected = 0 when it is. *)
C5_CursorBound ==
    IF app.directories = <<>> THEN app.selected = 0
    ELSE app.selected < Len(app.directories)

----------------------------------------------------------------------------
(* The pool's claims, under SpecPool *)

\* where in the log the event of that kind for that task is, 0 when nowhere
EventAt(what, id) ==
    LET hits == {i \in 1..Len(started) : started[i].what = what /\ started[i].id = id}
    IN IF hits = {} THEN 0 ELSE CHOOSE i \in hits : TRUE

TaskIds == {started[i].id : i \in 1..Len(started)}

PriorityOf(id) == started[EventAt("enqueued", id)].priority

\* A is of a strictly lower class than B and both were enqueued before a
\* worker took either
EnqueuedFirst(A, B) ==
    /\ EventAt("enqueued", A) > 0
    /\ EventAt("enqueued", B) > 0
    /\ PriorityOf(A) < PriorityOf(B)
    /\ EventAt("dequeued", A) > 0 => EventAt("enqueued", B) < EventAt("dequeued", A)
    /\ EventAt("dequeued", B) > 0 => EventAt("enqueued", A) < EventAt("dequeued", B)

\* what happened to B, happened to A before
Before(what, A, B) ==
    EventAt(what, B) > 0 => (EventAt(what, A) > 0 /\ EventAt(what, A) < EventAt(what, B))

DequeueOrder == \A A \in TaskIds : \A B \in TaskIds :
                    EnqueuedFirst(A, B) => Before("dequeued", A, B)

ProgressOrder == \A A \in TaskIds : \A B \in TaskIds :
                     EnqueuedFirst(A, B) => Before("announced", A, B)

(* C6, as amended: priority ordering. If task A is of a strictly lower
   priority class than task B and both were enqueued before a worker took
   either, A is dequeued before B whatever the number of workers is; A's
   Progress(Deleting) is sent before B's when the pool has one worker. *)
C6_PriorityOrdering ==
    /\ DequeueOrder
    /\ Len(workers) = 1 => ProgressOrder

(* C6, as stated: A is dequeued before B and A's Progress(Deleting) is sent
   before B's, for any number of workers. *)
C6_AsStated == DequeueOrder /\ ProgressOrder

\* a pool of several workers has announced two tasks of different classes that
\* were both in the queue before either was taken, the one enqueued last first
C6_Witness ==
    /\ Len(workers) > 1
    /\ \E A \in TaskIds : \E B \in TaskIds :
          /\ EnqueuedFirst(A, B)
          /\ EventAt("enqueued", B) < EventAt("enqueued", A)
          /\ EventAt("announced", A) > 0
          /\ EventAt("announced", A) < EventAt("announced", B)

----------------------------------------------------------------------------
(* The size updates' claims, under SpecSize *)

\* nothing is on its way: the walk is over and taken, no size is asked for,
\* being calculated or sent, and the main loop runs
SizesSettled ==
    /\ walk.pc = "returned"
    /\ discChan = <<>>
    /\ ~is_discovering(app)
    /\ sizeJobs = <<>>
    /\ sizeChan = <<>>
    /\ ~quit
    /\ \A i \in 1..Len(app.directories) :
           app.directories[i].calculation_status # "NotStarted"

(* C2: path-keyed size updates. Whatever the interleaving of admissions and
   size updates is, an entry that is Completed has the size its own
   calculation returned, an entry no update has come for has its size
   untouched, and when nothing is on its way any more every entry is
   Completed. *)
C2_PathKeyedSizeUpdates ==
    \A i \in 1..Len(app.directories) :
        LET d == app.directories[i]
        IN /\ d.calculation_status = "Completed" =>
                  (d.path \in DOMAIN computed /\ d.size = computed[d.path])
           /\ d.calculation_status # "Completed" => d.size = 0
           /\ SizesSettled => d.calculation_status = "Completed"

\* the list has grown to its full length while size updates were on their way:
\* some are applied, some are still in the channel, and the entry admitted
\* last has not been asked for
C2_Witness ==
    /\ Len(app.directories) = SizeMatches
    /\ app.directories[SizeMatches].calculation_status = "NotStarted"
    /\ sizeChan # <<>>
    /\ \E i \in 1..Len(app.directories) :
           /\ app.directories[i].calculation_status = "Completed"
           /\ app.directories[i].size > 0

----------------------------------------------------------------------------
(* The ledger's claims, under SpecLedger *)

RECURSIVE SumDeleted(_)
\* the sum of size over the entries whose deletion_status is Deleted
SumDeleted(directories) ==
    IF directories = <<>> THEN 0
    ELSE (IF Head(directories).deletion_status = "Deleted"
          THEN Head(directories).size ELSE 0) + SumDeleted(Tail(directories))

(* C1: ledger conservation. After every tick of the main loop
   total_freed_space is the sum of size over the entries whose
   deletion_status is Deleted. *)
C1_LedgerConservation ==
    loop = "input" => app.total_freed_space = SumDeleted(app.directories)

----------------------------------------------------------------------------
(* The admission's claims, under SpecApi *)

\* the paths of a list of entries
PathsOf(directories) == [i \in 1..Len(directories) |-> directories[i].path]

(* C11: admission batching. With batch_size >= 1 the pending buffer holds
   fewer than batch_size paths after every add_discovered_directory, and the
   entry list followed by the buffer is the paths in the order they were
   added. *)
C11_AdmissionBatching ==
    /\ Len(app.pending_directories) < app.batch_size
    /\ PathsOf(app.directories) \o app.pending_directories
           = [i \in 1..app.total_discovered |-> ChainPath(i)]

\* a buffer that reached batch_size was promoted and filled again, while
\* discovery never was Complete
C11_Witness ==
    /\ app.batch_size = 2
    /\ app.discovery_status = "NotStarted"
    /\ Len(app.directories) = 2
    /\ Len(app.pending_directories) = 1

----------------------------------------------------------------------------
(* The entry list's claims, under SpecLedger *)

\* the list of the next state begins with the paths of this state's list, in
\* the same order
ListGrows ==
    /\ Len(app'.directories) >= Len(app.directories)
    /\ SubSeq(PathsOf(app'.directories), 1, Len(app.directories))
           = PathsOf(app.directories)

\* the entries that are Deleted are Deleted in the next state
DeletedStay ==
    \A i \in 1..Len(app.directories) :
        app.directories[i].deletion_status = "Deleted"
            => /\ i <= Len(app'.directories)
               /\ app'.directories[i].deletion_status = "Deleted"

(* C12: monotone admission. Under every operation the entry list never
   shrinks and is never reordered, the path of an entry never changes, and
   an entry whose deletion succeeded stays in the list with status
   Deleted. *)
C12_MonotoneAdmission == [][ListGrows /\ DeletedStay]_vars

----------------------------------------------------------------------------
(* The deletion results' claims, under SpecDel *)

RECURSIVE ResultsIn(_)
\* the results of the Complete messages of a channel, in the order they are in
ResultsIn(chan) ==
    IF chan = <<>> THEN <<>>
    ELSE (IF Head(chan).type = "Complete" THEN Head(chan).results ELSE <<>>)
             \o ResultsIn(Tail(chan))

RECURSIVE Succeeded(_)
\* the results whose success is true
Succeeded(results) ==
    IF results = <<>> THEN <<>>
    ELSE (IF Head(results).success THEN <<Head(results)>> ELSE <<>>)
             \o Succeeded(Tail(results))

RECURSIVE SumSizes(_)
\* the sum of the size fields of the rows
SumSizes(rows) ==
    IF rows = <<>> THEN 0 ELSE Head(rows).size + SumSizes(Tail(rows))

\* the message is about the entry at index
Mentions(message, index) ==
    CASE message.type = "StartSingle" -> message.index = index
      [] message.type = "StartMultiple" ->
             \E k \in 1..Len(message.indices) : message.indices[k] = index
      [] message.type = "Progress" -> message.index = index
      [] message.type = "Complete" ->
             \E k \in 1..Len(message.results) : message.results[k].index = index

Last(S) == CHOOSE k \in S : \A j \in S : j <= k

\* a call of process_deletion_messages that found messages
Processed == CanCall /\ delChan # <<>> /\ delChan' = <<>>

\* the rows the call appends are those of the successful results, each with
\* the size of its entry, and total_freed_space grows by their sizes
OnlySuccessCredited ==
    LET credited == Succeeded(ResultsIn(delChan))
    IN /\ app'.freed_space_history =
              app.freed_space_history \o
                  [k \in 1..Len(credited) |->
                      [path |-> credited[k].path,
                       size |-> app.directories[credited[k].index + 1].size]]
       /\ app'.total_freed_space =
              app.total_freed_space
                  + SumSizes([k \in 1..Len(credited) |->
                                 app.directories[credited[k].index + 1]])

\* an entry whose last message is a Complete has the status its own result
\* gives: Error when the removal failed, Deleted when it succeeded
OwnResultRecorded ==
    \A index \in 0..(Len(app.directories) - 1) :
        LET about == {k \in 1..Len(delChan) : Mentions(delChan[k], index)}
        IN (about # {} /\ delChan[Last(about)].type = "Complete")
           => LET results == delChan[Last(about)].results
                  own == results[Last({k \in 1..Len(results) : results[k].index = index})]
              IN app'.directories[index + 1].deletion_status =
                     IF own.success THEN "Deleted" ELSE "Error"

\* the results the threads have collected and those on the channel
ResultsCollected ==
    UNION {{threads[t].results[k] : k \in 1..Len(threads[t].results)} :
               t \in 1..Len(threads)}
        \cup {ResultsIn(delChan)[k] : k \in 1..Len(ResultsIn(delChan))}

\* a result is that of the removal of its own path: success only when the
\* directory could be removed and is gone, failure only when it could not be
\* removed or was not there
OwnRemovalReported ==
    \A result \in ResultsCollected :
        IF result.success
        THEN result.path \notin disk.protected /\ result.path \notin disk.present
        ELSE result.path \in disk.protected \/ result.path \notin disk.present

(* C13: a failed deletion is not credited. When a result with success false
   is processed the entry's deletion_status becomes Error and
   total_freed_space and freed_space_history do not change; the failure of
   one entry's removal does not change the outcome recorded for another
   entry of the same batch. *)
C13_FailedDeletionNotCredited ==
    [][/\ OwnRemovalReported'
       /\ Processed => (OnlySuccessCredited /\ OwnResultRecorded)]_vars

\* one request for both entries was made: the first could not be removed and
\* is in Error, the second is Deleted and is the only one credited
C13_Witness ==
    /\ requests = MaxRequests - 1
    /\ threads = <<>>
    /\ delChan = <<>>
    /\ app.directories[1].deletion_status = "Error"
    /\ app.directories[2].deletion_status = "Deleted"
    /\ app.total_freed_space = app.directories[2].size
    /\ Len(app.freed_space_history) = 1

\* the rows of this state are the first rows of the next state
HistoryAppendOnly ==
    /\ Len(app'.freed_space_history) >= Len(app.freed_space_history)
    /\ SubSeq(app'.freed_space_history, 1, Len(app.freed_space_history))
           = app.freed_space_history

(* C14: ledger and history agree. In every reachable state
   total_freed_space is the sum of the size fields of the rows of
   freed_space_history, and no step changes or removes a row that is
   there. *)
C14_LedgerHistoryAgreement ==
    [][/\ app'.total_freed_space = SumSizes(app'.freed_space_history)
       /\ HistoryAppendOnly]_vars

\* both entries were removed and credited, by two calls of
\* process_deletion_messages
C14_Witness ==
    /\ Len(app.freed_space_history) = DelEntries
    /\ app.freed_space_history[1].path = ChainPath(2)
    /\ app.total_freed_space = 1024 + 2048
    /\ delChan = <<>>

----------------------------------------------------------------------------
(* The discoverer's claims on its inputs and its consumer, under SpecWalk *)

\* the pattern is empty, or the root does not exist or is not a directory
InvalidInput == pattern = <<>> \/ fsRoot.kind # "dir"

(* C15: input validation. When the pattern is empty, or the root does not
   exist or is not a directory, stream_directories_with_ignore returns an
   error and sends no message at all on the channel. *)
C15_InputValidation ==
    InvalidInput =>
        /\ sendLog = <<>>
        /\ discChan = <<>>
        /\ walk.pc \in {"init", "returned"}
        /\ walk.pc = "returned" => walk.result = "err"

\* the discoverer has returned from a call with an empty pattern on a root
\* that is a directory with entries, and the main loop has run since
C15_Witness ==
    /\ pattern = <<>>
    /\ fsRoot.kind = "dir" /\ fsRoot.readable /\ fsRoot.sub # <<>>
    /\ walk.pc = "returned"
    /\ loop = "input"

\* a send of DirectoryFound has failed: the receiver was dropped
FoundSendFailed ==
    \E k \in 1..Len(sendLog) :
        sendLog[k].msg.type = "DirectoryFound" /\ ~sendLog[k].ok

\* the sends of DirectoryFound that were attempted
FoundAttempts(log) == {k \in 1..Len(log) : log[k].msg.type = "DirectoryFound"}

(* C16: a consumer that disconnects stops the walk. Once a send of
   DirectoryFound has failed, the walker reads no further directory,
   attempts no further send of DirectoryFound, and returns without error. *)
C16_DisconnectStopsWalk ==
    [][FoundSendFailed =>
          /\ Len(walk'.stack) <= Len(walk.stack)
          /\ FoundAttempts(sendLog') = FoundAttempts(sendLog)
          /\ walk'.pc = "returned" => walk'.result = "ok"]_vars

----------------------------------------------------------------------------
(* The deletion concurrency's claim, under SpecBurst *)

\* the calls of remove_dir_all that have begun and not returned, in the
\* spawned threads and in the workers of the pool
RemovalsInProgress ==
    Cardinality({t \in 1..Len(threads) : threads[t].pc = "removing"})
        + Cardinality({w \in 1..Len(workers) : workers[w].pc = "removing"})

(* C17: bounded deletion concurrency. At any time at most N (4 in
   init_deletion_channel) recursive removals are in progress, for any
   sequence of delete requests made through the App. *)
C17_BoundedDeletionConcurrency == RemovalsInProgress <= PoolWorkers

----------------------------------------------------------------------------
(* The selection's claim, under SpecApi, and the cursor's, under SpecNav *)

(* C18: idempotence of bulk selection. deselect_all applied twice gives the
   state deselect_all applied once gives, and the same for select_all;
   after select_all every entry has selected true and after deselect_all
   every entry has selected false. *)
C18_BulkSelectionIdempotent ==
    LET all == select_all(app)
        none == deselect_all(app)
    IN /\ select_all(all) = all
       /\ deselect_all(none) = none
       /\ \A i \in 1..Len(all.directories) : all.directories[i].selected
       /\ \A i \in 1..Len(none.directories) : ~none.directories[i].selected

\* a full list on which some entries are selected and some are not: each of
\* select_all and deselect_all changes it
C18_Witness ==
    /\ Len(app.directories) = MaxAdds
    /\ \E i, j \in 1..Len(app.directories) :
           app.directories[i].selected /\ ~app.directories[j].selected

RECURSIVE NextTimes(_, _, _)
\* k calls of next
NextTimes(a, ipp, k) == IF k = 0 THEN a ELSE NextTimes(next(a, ipp), ipp, k - 1)

RECURSIVE PreviousTimes(_, _, _)
\* k calls of previous
PreviousTimes(a, ipp, k) ==
    IF k = 0 THEN a ELSE PreviousTimes(previous(a, ipp), ipp, k - 1)

(* C19: cursor wraparound. On a list of n >= 1 entries with the cursor at
   i, next moves the cursor to (i + 1) mod n and previous to (i - 1) mod n,
   so that n calls of next, or of previous, bring the cursor back to i; on
   an empty list both leave selected at 0. The property is that of each
   state in which the main loop handles a key. *)
C19_CursorWraparound ==
    loop = "input" =>
        LET n == Len(app.directories)
            i == app.selected
            ipp == items_per_page
        IN IF n = 0
           THEN /\ next(app, ipp).selected = 0
                /\ previous(app, ipp).selected = 0
           ELSE /\ next(app, ipp).selected = (i + 1) % n
                /\ previous(app, ipp).selected = (i - 1) % n
                /\ NextTimes(app, ipp, n).selected = i
                /\ PreviousTimes(app, ipp, n).selected = i

\* a key is handled with the cursor on the last entry of the whole list,
\* from where next wraps to the first
C19_Witness ==
    /\ loop = "input"
    /\ Len(app.directories) = NavMatches
    /\ app.selected = NavMatches - 1
    /\ app.current_page = NavMatches - 1

----------------------------------------------------------------------------
(* The page stepping's claim, under SpecNav *)

\* the keys bound to previous_page and next_page
PageKeys == {"Left", "Right"}

(* C20: page stepping clamps. A next_page or previous_page that moves ends
   with current_page within [0, total_pages) and with selected set to
   current_page * items_per_page; next_page on the last page and
   previous_page on page 0 leave the page and the selection unchanged;
   go_to_page(p) with p >= total_pages changes nothing. *)
C20_PageSteppingClamps ==
    [][\A key \in PageKeys :
          KeyPress(key) =>
              LET pages == total_pages(app, items_per_page)
              IN /\ app' # app =>
                        /\ app'.current_page < pages
                        /\ app'.selected = app'.current_page * items_per_page
                 /\ (key = "Right" /\ app.current_page = pages - 1) => app' = app
                 /\ (key = "Left" /\ app.current_page = 0) => app' = app
                 /\ \A page \in pages..(pages + 1) :
                        go_to_page(app, page, items_per_page) = app]_vars

----------------------------------------------------------------------------
(* The priority scenario's claim, under SpecE5 *)

RECURSIVE Indices(_, _)
\* the entries (0-based) of the events of a kind, in the order of the log
Indices(log, what) ==
    IF log = <<>> THEN <<>>
    ELSE (IF Head(log).what = what THEN <<Head(log).index>> ELSE <<>>)
             \o Indices(Tail(log), what)

IsPrefix(s, u) == Len(s) <= Len(u) /\ s = SubSeq(u, 1, Len(s))

\* the entries of 500 KiB, 50 MiB, 500 MiB and 2 GiB, in that order
E5Order == <<1, 2, 3, 0>>

\* no task was taken by the worker before the last of the tasks was enqueued
AllEnqueuedFirst ==
    \A i \in 1..Len(started) :
        started[i].what = "dequeued" =>
            Enqueued(SubSeq(started, 1, i)) = Len(E5Sizes)

(* C21, as amended: priority scenario E5. When the tasks of 2 GiB, 500 KiB,
   50 MiB and 500 MiB are enqueued in that order into a pool of one worker,
   and the worker takes none before the last is enqueued, the tasks start
   in the order 500 KiB, 50 MiB, 500 MiB, 2 GiB. *)
C21_PriorityScenario ==
    AllEnqueuedFirst =>
        /\ IsPrefix(Indices(started, "dequeued"), E5Order)
        /\ IsPrefix(Indices(started, "announced"), E5Order)

(* C21, as stated: the tasks start in the order 500 KiB, 50 MiB, 500 MiB,
   2 GiB. *)
C21_AsStated ==
    /\ IsPrefix(Indices(started, "dequeued"), E5Order)
    /\ IsPrefix(Indices(started, "announced"), E5Order)

\* the four tasks were enqueued before the worker took one, and all four have
\* started
C21_Witness ==
    /\ AllEnqueuedFirst
    /\ Len(Indices(started, "announced")) = Len(E5Sizes)

----------------------------------------------------------------------------
(* The queue's claim, under SpecPool *)

\* the queue is in the order of the classes and, within a class, in the order
\* of submission
QueueSorted ==
    \A i \in 1..Len(work_queue) : \A j \in (i + 1)..Len(work_queue) :
        /\ work_queue[i].priority <= work_queue[j].priority
        /\ work_queue[i].priority = work_queue[j].priority
               => work_queue[i].id < work_queue[j].id

\* A and B are of the same class and A was submitted first
SubmittedFirst(A, B) ==
    /\ EventAt("enqueued", A) > 0
    /\ EventAt("enqueued", B) > 0
    /\ PriorityOf(A) = PriorityOf(B)
    /\ EventAt("enqueued", A) < EventAt("enqueued", B)

(* C22: first in, first out among equal priorities. The work queue is always
   sorted by non-decreasing priority class, and two tasks of the same class
   are dequeued in the order in which add_task submitted them. *)
C22_FifoAmongEquals ==
    /\ QueueSorted
    /\ \A A \in TaskIds : \A B \in TaskIds :
           SubmittedFirst(A, B) => Before("dequeued", A, B)

\* two tasks of one class were in the queue together and both were taken
C22_Witness ==
    \E A \in TaskIds : \E B \in TaskIds :
        /\ SubmittedFirst(A, B)
        /\ EventAt("dequeued", B) > 0
        /\ EventAt("enqueued", B) < EventAt("dequeued", A)

----------------------------------------------------------------------------
(* The priority classes' claim, under SpecPool *)

\* 1 MiB, 100 MiB and 1 GiB
MiB == 1024 * 1024
ClassBounds == {MiB, 100 * MiB, 1024 * MiB}

\* the sizes at, just below and just above the bounds, the least and the
\* greatest size, and the sizes of the entries
ClassSizes ==
    {0, 2147483647} \cup PoolSizes
        \cup UNION {{b - 1, b, b + 1} : b \in ClassBounds}

\* the class the table gives to a size
ClassOf(s) ==
    CASE s <= MiB -> Small
      [] MiB < s /\ s <= 100 * MiB -> Medium
      [] 100 * MiB < s /\ s <= 1024 * MiB -> Large
      [] s > 1024 * MiB -> Huge

(* C23: priority classes. get_deletion_priority(s) is Small when
   s <= 1 MiB, Medium when 1 MiB < s <= 100 MiB, Large when
   100 MiB < s <= 1 GiB and Huge when s > 1 GiB, and it is monotone in s;
   the priority of every task made is that of the size of its entry. *)
C23_PriorityClasses ==
    /\ \A s \in ClassSizes : get_deletion_priority(s) = ClassOf(s)
    /\ \A s \in ClassSizes : \A u \in ClassSizes :
           s <= u => get_deletion_priority(s) <= get_deletion_priority(u)
    /\ \A i \in 1..Len(started) :
           started[i].priority = ClassOf(app.directories[started[i].index + 1].size)

\* tasks of the least and of the greatest class were made from the entries
C23_Witness ==
    /\ \E i \in 1..Len(started) : started[i].priority = Small
    /\ \E i \in 1..Len(started) : started[i].priority = Huge

----------------------------------------------------------------------------
(* The key events' claim, under SpecKeys *)

\* the selected flags are those of before
FlagsKept ==
    /\ Len(app'.directories) = Len(app.directories)
    /\ \A i \in 1..Len(app.directories) :
           app'.directories[i].selected = app.directories[i].selected

\* a deletion of the entry under the cursor was started
CurrentDeletionStarted ==
    /\ Len(threads') = Len(threads) + 1
    /\ threads'[Len(threads')] = NewThread("single", <<Item(app, app.selected)>>)
    /\ delChan' = Append(delChan, StartSingle(app.selected))

(* C24: key precedence on d. A key event with the code 'd' and the Control
   modifier starts the deletion of the current entry, as Ctrl-x does, and
   does not deselect; a bare 'd' deselects all entries and starts no
   deletion. *)
C24_KeyPrecedence ==
    [][/\ \A code \in {"d", "x"} :
              KeyEvent(code, TRUE) =>
                  /\ FlagsKept
                  /\ app.directories # <<>> => CurrentDeletionStarted
       /\ KeyEvent("d", FALSE) =>
              /\ \A i \in 1..Len(app'.directories) : ~app'.directories[i].selected
              /\ threads' = threads
              /\ delChan' = delChan]_vars

\* the deletion of an entry that is selected was started, and the entry is
\* selected still
C24_Witness ==
    /\ loop = "tick"
    /\ Len(threads) = 1
    /\ threads[1].kind = "single"
    /\ delChan = <<StartSingle(0)>>
    /\ app.directories[1].selected

----------------------------------------------------------------------------
(* The frame of the selection and of the navigation, under SpecApi *)

\* the selected flags of a list of entries
FlagsOf(directories) == [i \in 1..Len(directories) |-> directories[i].selected]

\* what the selection operations make of the App
SelectionResults ==
    {toggle_current_selection(app), select_current(app), deselect_current(app),
     select_all(app), deselect_all(app), toggle_selection_mode(app)}

\* what the navigation operations make of the App, for every page size
NavigationResults ==
    {HandleKey(app, key, ipp) : key \in NavKeys, ipp \in PageSizes}
        \cup {go_to_page(app, page, ipp) : page \in 0..MaxAdds, ipp \in PageSizes}

(* C25: selection is independent of the cursor. The selection operations
   leave selected and current_page unchanged, the navigation operations
   leave the selected flag of every entry unchanged, and
   toggle_current_selection changes the flag of the entry under the cursor
   only. *)
C25_SelectionIndependentOfCursor ==
    /\ \A a \in SelectionResults :
           a.selected = app.selected /\ a.current_page = app.current_page
    /\ \A a \in NavigationResults : FlagsOf(a.directories) = FlagsOf(app.directories)
    /\ LET a == toggle_current_selection(app)
       IN /\ Len(a.directories) = Len(app.directories)
          /\ \A i \in 1..Len(app.directories) :
                 a.directories[i].selected =
                     IF i = app.selected + 1 THEN ~app.directories[i].selected
                     ELSE app.directories[i].selected

\* the cursor is on the third of four entries, of which some are selected and
\* some are not
C25_Witness ==
    /\ Len(app.directories) = MaxAdds
    /\ app.selected = 2
    /\ app.directories[3].selected
    /\ ~app.directories[1].selected
    /\ app.directories[MaxAdds].selected

----------------------------------------------------------------------------
(* The history's claim, under SpecBatch *)

\* the call of process_deletion_messages appends one row for each successful
\* result it takes, in the order of the results, and no other row
RowsFollowSuccesses ==
    LET credited == Succeeded(ResultsIn(delChan))
        old == Len(app.freed_space_history)
    IN /\ Len(app'.freed_space_history) = old + Len(credited)
       /\ SubSeq(app'.freed_space_history, 1, old) = app.freed_space_history
       /\ \A k \in 1..Len(credited) :
              app'.freed_space_history[old + k].path = credited[k].path

\* the three entries were deleted as one batch, of which the removal of
\* exactly one failed, and every message was processed
OneOfThreeFailed ==
    /\ requests = 0
    /\ threads = <<>>
    /\ delChan = <<>>
    /\ \A i \in 1..Len(BatchSizes) :
           app.directories[i].deletion_status \in {"Deleted", "Error"}
    /\ Cardinality(disk.protected) = 1

(* C26: history rows follow successes. freed_space_history gains exactly one
   row for each successful deletion result processed and none for a failed
   one, in the order in which the successes were processed; three selected
   entries of sizes 100, 200 and 300 of which one fails give exactly two
   rows and a total that is the sum of the two sizes that succeeded. *)
C26_HistoryFollowsSuccesses ==
    [][/\ Processed => RowsFollowSuccesses
       /\ OneOfThreeFailed' =>
              LET failed == CHOOSE k \in 1..Len(BatchSizes) :
                                ChainPath(k) \in disk'.protected
                  rows == app'.freed_space_history
              IN /\ Len(rows) = 2
                 /\ rows[1].path = ChainPath(IF failed = 1 THEN 2 ELSE 1)
                 /\ rows[2].path = ChainPath(IF failed = 3 THEN 2 ELSE 3)
                 /\ app'.total_freed_space =
                        BatchSizes[1] + BatchSizes[2] + BatchSizes[3] - BatchSizes[failed]
                 /\ app'.directories[failed].deletion_status = "Error"]_vars

\* the batch of three is done: the second removal failed, the first and the
\* third have a row each
C26_Witness ==
    /\ OneOfThreeFailed
    /\ disk.protected = {ChainPath(2)}
    /\ Len(app.freed_space_history) = 2
    /\ app.total_freed_space = 400

----------------------------------------------------------------------------
(* The worker protocol's claim, under SpecPool *)

\* the indices of the tasks the workers have dequeued
DequeuedIndices ==
    {started[i].index : i \in {j \in 1..Len(started) : started[j].what = "dequeued"}}

\* the worker that works on the task of that entry, 0 when none does
WorkerOn(index) ==
    LET busy == {w \in 1..Len(workers) :
                    workers[w].pc \notin {"idle", "uncount"} /\ workers[w].task.index = index}
    IN IF busy = {} THEN 0 ELSE CHOOSE w \in busy : TRUE

\* where on the channel the messages of that type for that entry are
ProgressAt(index) ==
    {k \in 1..Len(delChan) : delChan[k].type = "Progress" /\ delChan[k].index = index}

CompleteAt(index) ==
    {k \in 1..Len(delChan) :
        /\ delChan[k].type = "Complete"
        /\ \E r \in 1..Len(delChan[k].results) : delChan[k].results[r].index = index}

\* the Progress and the Complete messages that were sent for that entry: those
\* on the channel and those the App has taken
ProgressSent(index) ==
    Cardinality(ProgressAt(index))
        + (IF app.directories[index + 1].deletion_status = "Normal" THEN 0 ELSE 1)

CompleteSent(index) ==
    Cardinality(CompleteAt(index))
        + (IF app.directories[index + 1].deletion_status \in {"Deleted", "Error"}
           THEN 1 ELSE 0)

\* the worker's place after the Progress message, and after the Complete message
ProgressDue(index) ==
    index \in DequeuedIndices
        /\ (WorkerOn(index) = 0 \/ workers[WorkerOn(index)].pc \notin {"count", "progress"})

CompleteDue(index) == index \in DequeuedIndices /\ WorkerOn(index) = 0

(* C27: worker protocol. For every task a pool worker dequeues it sends
   Progress(index, Deleting) before it performs the removal, and then exactly
   one Complete that carries the result of that task's removal; on the
   deletion channel the Progress of a task precedes its Complete, so that
   the entry is Deleting before it is Deleted or Error. *)
C27_WorkerProtocol ==
    /\ \A i \in 0..(Len(app.directories) - 1) :
          /\ ProgressSent(i) = (IF ProgressDue(i) THEN 1 ELSE 0)
          /\ CompleteSent(i) = (IF CompleteDue(i) THEN 1 ELSE 0)
          /\ \A c \in CompleteAt(i) :
                /\ Len(delChan[c].results) = 1
                /\ delChan[c].results[1] =
                       DeletionResult(i, app.directories[i + 1].path,
                                      app.directories[i + 1].path \notin disk.present)
                /\ \/ app.directories[i + 1].deletion_status = "Deleting"
                   \/ \E q \in ProgressAt(i) : q < c
          /\ app.directories[i + 1].deletion_status = "Deleted"
                 => app.directories[i + 1].path \notin disk.present
          /\ app.directories[i + 1].deletion_status = "Error"
                 => app.directories[i + 1].path \in disk.present
    /\ \A w \in 1..Len(workers) :
          workers[w].pc \in {"remove", "removing", "complete"}
              => EventAt("announced", workers[w].task.id) > 0

\* the first entry was removed and the App has taken its messages; the
\* Progress and the Complete of the second, whose removal failed, are on the
\* channel
C27_Witness ==
    /\ app.directories[1].deletion_status = "Deleted"
    /\ app.directories[2].deletion_status = "Normal"
    /\ Len(delChan) = 2
    /\ delChan[1] = Progress(1)
    /\ delChan[2] = Complete(<<DeletionResult(1, ChainPath(2), FALSE)>>)

----------------------------------------------------------------------------
(* The redraw flag's claim, under SpecNav *)

\* the iteration drew a frame
FrameDrawn == loop = "tick" /\ loop' = "input"

(* C28: dirty flag cleared by drawing. After a frame is drawn the redraw flag
   is clear, and it stays clear until a key that changes the App sets it, so
   that the loop can sleep when nothing happens. *)
C28_DirtyFlagCleared ==
    [][/\ FrameDrawn => ~needs_redraw'
       /\ (~needs_redraw /\ loop = "input" /\ app' = app) => ~needs_redraw']_vars

----------------------------------------------------------------------------
(* The drains' claim, under SpecDrain *)

\* the messages the iteration took from a channel
TakenFrom(before, after) == SubSeq(before, 1, Len(before) - Len(after))

\* the DirectoryFound messages among them
FoundIn(messages) ==
    Cardinality({k \in 1..Len(messages) : messages[k].type = "DirectoryFound"})

\* the iteration took its messages from the heads of the channels
HeadsTaken ==
    /\ Len(discChan') <= Len(discChan)
    /\ discChan' = SubSeq(discChan, Len(discChan) - Len(discChan') + 1, Len(discChan))
    /\ Len(sizeChan') <= Len(sizeChan)
    /\ sizeChan' = SubSeq(sizeChan, Len(sizeChan) - Len(sizeChan') + 1, Len(sizeChan))

\* every deletion message was taken and its arm has acted on the entries
DeletionsProcessed ==
    /\ delChan' = <<>>
    /\ Len(app'.freed_space_history) =
           Len(process_deletion_messages(app, delChan).freed_space_history)
    /\ \A i \in 1..Len(app.directories) :
           app'.directories[i].deletion_status =
               process_deletion_messages(app, delChan).directories[i].deletion_status

(* C29: bounded drain per tick. An iteration of the main loop takes at most
   20 DirectoryFound messages when the App is Discovering and at most 10
   otherwise, takes at most 5 size updates, and processes every deletion
   message there is. *)
C29_BoundedDrain ==
    [][(loop = "tick" /\ loop' # "tick") =>
          /\ HeadsTaken
          /\ FoundIn(TakenFrom(discChan, discChan'))
                 <= (IF is_discovering(app) THEN 20 ELSE 10)
          /\ Len(TakenFrom(sizeChan, sizeChan')) <= 5
          /\ DeletionsProcessed]_vars

\* an iteration has left messages on two channels: it took 20 of the 21
\* DirectoryFound messages and 5 of the 6 size updates; the entry whose
\* deletion was asked for before it is Deleting
C29_Witness ==
    /\ loop = "input"
    /\ app.total_discovered = DrainAdmitted + 20
    /\ Len(discChan) = 2
    /\ Head(discChan).type = "DirectoryFound"
    /\ Len(sizeChan) = 1
    /\ app.directories[1].deletion_status = "Deleting"
    /\ delChan = <<>>

----------------------------------------------------------------------------
(* The size calculation's claim, under SpecLedger *)

\* the size computation of the directory returned an error: the directories
\* of the model hold files, so that a size of 0 is what unwrap_or gives
SizeFailed(path) == path \in DOMAIN computed /\ computed[path] = 0

\* the calculation status of the entries moves from NotStarted to Calculating
\* and from Calculating to the given status only
StatusMoves(finished(_)) ==
    \A i \in 1..Len(app.directories) :
        LET old == app.directories[i].calculation_status
            new == app'.directories[i].calculation_status
        IN old # new =>
              \/ old = "NotStarted" /\ new = "Calculating"
              \/ old = "Calculating" /\ new = finished(app.directories[i].path)

\* what the entry of a computation that failed ends as
ErrorWhenFailed(path) == IF SizeFailed(path) THEN "Error" ELSE "Completed"

(* C30: size-calculation errors are recorded per entry. When the size
   computation of an entry returns an error the entry's calculation status
   becomes Error and not Completed; otherwise the status moves only from
   NotStarted to Calculating, when the job is dispatched, and from Calculating
   to Completed, when the result is applied. *)
C30_SizeErrorsRecorded == [][StatusMoves(ErrorWhenFailed)]_vars

----------------------------------------------------------------------------
(* The flush's claim, under SpecApi *)

\* nothing is pending and every directory that was discovered is on the list
Flushed(a) ==
    /\ a.pending_directories = <<>>
    /\ Len(a.directories) = a.total_discovered

(* C31: flush on Complete. With a batch_size of 1 or more, right after
   set_discovery_status(Complete), or process_remaining_pending, the pending
   buffer is empty and the list of an App that began empty has
   total_discovered entries; in every reachable state total_discovered is
   the length of the list plus the length of the pending buffer. *)
C31_FlushOnComplete ==
    /\ app.total_discovered = Len(app.directories) + Len(app.pending_directories)
    /\ Flushed(set_discovery_status(app, "Complete"))
    /\ Flushed(process_remaining_pending(app))
    /\ set_discovery_status(app, "Complete").discovery_status = "Complete"

\* with the greatest batch_size one directory more than a batch was added, and
\* set_discovery_status(Complete) has promoted the one that was pending
C31_Witness ==
    /\ app.batch_size = MaxBatch
    /\ app.discovery_status = "Complete"
    /\ app.total_discovered = MaxBatch + 1
    /\ Len(app.directories) = MaxBatch + 1
    /\ app.pending_directories = <<>>

----------------------------------------------------------------------------
(* The deletion messages' indices, under SpecAdmit *)

\* the entry at the index is the entry of the path
EntryAt(index, path) ==
    index < Len(app.directories) /\ app.directories[index + 1].path = path

\* the entries the threads were started for, with the paths they were given
ItemsInFlight ==
    UNION {{threads[t].items[k] : k \in 1..Len(threads[t].items)} : t \in 1..Len(threads)}

\* the indices a message names
IndicesOf(message) ==
    CASE message.type \in {"StartSingle", "Progress"} -> {message.index}
      [] message.type = "StartMultiple" ->
             {message.indices[k] : k \in 1..Len(message.indices)}
      [] message.type = "Complete" ->
             {message.results[k].index : k \in 1..Len(message.results)}

\* a message that carries no path names an entry of a thread that runs, or of
\* the Complete message that follows it on the channel
RequestOf(k, index) ==
    \/ \E item \in ItemsInFlight : item.index = index
    \/ \E c \in (k + 1)..Len(delChan) :
           delChan[c].type = "Complete" /\ index \in IndicesOf(delChan[c])

(* C32: index-keyed deletion messages hit the right entry. For every deletion
   message on its way to process_deletion_messages the entry at the message's
   index is the entry whose path the deletion was requested for, whatever
   admissions were made since the request. *)
C32_IndexKeyedDeletion ==
    /\ \A item \in ItemsInFlight : EntryAt(item.index, item.path)
    /\ \A result \in ResultsCollected : EntryAt(result.index, result.path)
    /\ \A k \in 1..Len(delChan) :
           delChan[k].type # "Complete" =>
               \A index \in IndicesOf(delChan[k]) :
                   index < Len(app.directories) /\ RequestOf(k, index)

\* the deletion of the two entries of the first batch was asked for, two more
\* entries were added since, and the messages of the deletion wait
C32_Witness ==
    /\ Len(app.directories) = 2 * AdmitBatch
    /\ Len(delChan) >= 2
    /\ delChan[1] = StartMultiple(<<0, 1>>)
    /\ delChan[Len(delChan)].type = "Complete"

----------------------------------------------------------------------------
(* The credits' claim, under SpecBurst *)

(* C33: single credit. Each entry is credited to the freed-space ledger at
   most once: freed_space_history never holds two rows for the same path,
   whatever delete requests are made, repeated or overlapping ones on the
   same entry included. *)
C33_SingleCredit ==
    \A j \in 1..Len(app.freed_space_history) :
        \A k \in 1..Len(app.freed_space_history) :
            app.freed_space_history[j].path = app.freed_space_history[k].path => j = k

----------------------------------------------------------------------------
(* The Deleted status's claim, under SpecDel *)

(* C34: Deleted is terminal. Once the deletion_status of an entry is Deleted
   no later delete request and no later deletion message sets it to
   Deleting, Normal or Error. *)
C34_DeletedIsTerminal ==
    [][\A i \in 1..Len(app.directories) :
           app.directories[i].deletion_status = "Deleted"
               => app'.directories[i].deletion_status = "Deleted"]_vars

----------------------------------------------------------------------------
(* The deletion flag's claim and the pool's idleness claim, under SpecPool *)

\* a worker holds a task it took from the queue and has not sent the result of
HoldsTask(w) == workers[w].pc \in {"count", "progress", "remove", "removing", "complete"}

\* a result is on the channel, not yet taken by process_deletion_messages
ResultWaits == \E k \in 1..Len(delChan) : delChan[k].type = "Complete"

\* a deletion that was asked for has not had its result processed
DeletionOutstanding ==
    \/ adding # <<>>
    \/ work_queue # <<>>
    \/ \E w \in 1..Len(workers) : HoldsTask(w)
    \/ ResultWaits

(* C35: deletion-in-progress flag. is_deleting() is true whenever a deletion
   that was requested has not yet had its result processed, in particular
   while tasks of a delete_selected_directories batch are queued or running. *)
C35_DeletionFlag == DeletionOutstanding => is_deleting(app)

\* a worker holds a dequeued task whose removal has not finished
RemovalUnfinished(w) == workers[w].pc \in {"count", "progress", "remove", "removing"}

(* C36: idle means no work. is_idle() is true only when no task is in the
   queue and no worker holds a dequeued task whose removal has not finished,
   and active_task_count() never exceeds max_workers. *)
C36_IdleMeansNoWork ==
    /\ is_idle => /\ work_queue = <<>>
                  /\ \A w \in 1..Len(workers) : ~RemovalUnfinished(w)
    /\ active_task_count <= Len(workers)

----------------------------------------------------------------------------
(* The discovery's progress claim, under SpecWalkLive *)

\* every path the discovery thread sent is an entry of the list
AllShown ==
    \A k \in 1..Len(sendLog) :
        (sendLog[k].msg.type = "DirectoryFound" /\ sendLog[k].ok)
            => position(app.directories, sendLog[k].msg.path) >= 0

(* C37: discovery makes progress. When the main loop keeps ticking, every
   path the walk discovered is eventually an entry of the list and the
   discovery status eventually leaves Discovering, however the walk ends:
   there comes a state in which the walk has returned, all it sent is shown
   and the App is no longer Discovering. *)
C37_DiscoveryProgress ==
    <>(walk.pc = "returned" /\ AllShown /\ ~is_discovering(app))

----------------------------------------------------------------------------
(* The sizes' progress claim, under SpecSizeLive *)

\* the list has an i-th entry
Admitted(i) == Len(app.directories) >= i

\* the i-th entry's calculation has ended
Sized(i) == Admitted(i) /\ app.directories[i].calculation_status \in {"Completed", "Error"}

(* C38: every admitted entry eventually gets a size. When the main loop keeps
   ticking and the size jobs are run, every entry of the list eventually
   leaves NotStarted and reaches Completed or Error, whatever the number of
   entries and whether or not discovery has finished. *)
C38_SizesProgress == \A i \in 1..LiveMatches : Admitted(i) ~> Sized(i)

----------------------------------------------------------------------------
(* The flush's termination claim, under SpecFlush *)

(* C39: flush terminates. A call of process_remaining_pending, and so of
   set_discovery_status(Complete), returns for every value of batch_size,
   0 included; a call of add_discovered_directory, which has no loop, is one
   step. *)
C39_FlushTerminates == (loop = "flush") ~> (loop = "api")

----------------------------------------------------------------------------
(* The size jobs' claim, under SpecSize *)

\* the size jobs that hold the path and have not sent their results
JobsOf(path) ==
    {j \in 1..Len(sizeJobs) : \E k \in 1..Len(sizeJobs[j].paths) : sizeJobs[j].paths[k] = path}

\* the results for the path that wait on the channel
ResultsFor(path) == {k \in 1..Len(sizeChan) : sizeChan[k].path = path}

\* every path a job holds, and every path of a result, is an entry's
NamesAnEntry ==
    /\ \A j \in 1..Len(sizeJobs) : \A k \in 1..Len(sizeJobs[j].paths) :
           position(app.directories, sizeJobs[j].paths[k]) >= 0
    /\ \A k \in 1..Len(sizeChan) : position(app.directories, sizeChan[k].path) >= 0

\* an entry has at most one computation on its way, and is Calculating then
DispatchedOnce ==
    \A i \in 1..Len(app.directories) :
        LET d == app.directories[i]
            n == Cardinality(JobsOf(d.path)) + Cardinality(ResultsFor(d.path))
        IN /\ n <= 1
           /\ n = 1 => d.calculation_status = "Calculating"

\* the place of a calculation status in NotStarted, Calculating, Completed
StatusRank(status) ==
    IF status = "NotStarted" THEN 0 ELSE IF status = "Calculating" THEN 1 ELSE 2

\* no entry's status moves backwards, and a result that is taken is applied
StatusForward ==
    \A i \in 1..Len(app.directories) :
        /\ StatusRank(app'.directories[i].calculation_status)
               >= StatusRank(app.directories[i].calculation_status)
        /\ (ResultsFor(app.directories[i].path) # {}
              /\ ResultsFor(app.directories[i].path)' = {})
               => app'.directories[i].calculation_status = "Completed"

(* C40: one size job per entry, no update lost. A size computation is
   dispatched at most once per entry: an entry leaves NotStarted once and its
   calculation status never moves backwards; every size result that is
   received names a path of the list, and is applied to its entry. *)
C40_OneSizeJobPerEntry ==
    /\ [](NamesAnEntry /\ DispatchedOnce)
    /\ [][StatusForward]_vars

\* while the App is still Discovering with ten entries, one entry has its
\* size and the result of another, which is Calculating, is on the channel
C40_Witness ==
    /\ is_discovering(app)
    /\ Len(app.directories) >= 10
    /\ \E i \in 1..Len(app.directories) : app.directories[i].calculation_status = "Completed"
    /\ \E k \in 1..Len(sizeChan) : \E i \in 1..Len(app.directories) :
           /\ app.directories[i].path = sizeChan[k].path
           /\ app.directories[i].calculation_status = "Calculating"

====
